------------------------ MODULE VerificationLoopProofs ------------------------
(***************************************************************************)
(* The engine, for any programs and bounds: no state is lost, the order is *)
(* depth first, each run of the program is followed by one path, and what  *)
(* happens on this path is what the program does (ConcreteProgram).        *)
(***************************************************************************)
EXTENDS FollowRun, SequenceTheorems, Induction

(***************************************************************************)
(* Paths.                                                                  *)
(***************************************************************************)

\* The paths in a pool p: Path is Paths(pool).
PathsTo(P, p, id) == IF id = 0 THEN {} ELSE {id} \cup P[p[id].pred]
Paths(p) == CHOOSE P : P = [id \in 0 .. Len(p) |-> PathsTo(P, p, id)]

LEMMA PathIsPaths == Path = Paths(pool)
BY DEF Path, Paths, PathsTo

LEMMA PathPrime == Path' = Paths(pool')
BY DEF Path, Paths, PathsTo

\* The paths exist, for a predecessor comes before its successors.
LEMMA PathsDefined ==
    ASSUME NEW p, Len(p) \in Nat,
           \A id \in 1 .. Len(p) : p[id].pred \in 0 .. id - 1
    PROVE  /\ Paths(p)[0] = {}
           /\ \A id \in 1 .. Len(p) : Paths(p)[id] = {id} \cup Paths(p)[p[id].pred]
<1> DEFINE IsPathsUpTo(n, P) == P = [id \in 0 .. n |-> PathsTo(P, p, id)]
           Bad == {n \in 0 .. Len(p) : ~ \E P : IsPathsUpTo(n, P)}
<1>1. Bad = {}
  <2> SUFFICES ASSUME Bad # {} PROVE FALSE
    OBVIOUS
  <2>1. PICK n \in Bad : \A m \in Bad : n <= m
    <3>1. Bad \in SUBSET Nat
      OBVIOUS
    <3> HIDE DEF Bad
    <3> QED
      BY <3>1, NatHasLeast
  <2>2. CASE n = 0
    <3>1. IsPathsUpTo(0, [id \in 0 .. 0 |-> {}])
      BY DEF PathsTo
    <3> QED
      BY <3>1, <2>1, <2>2
  <2>3. CASE n # 0
    <3>1. n \in 1 .. Len(p) /\ n - 1 \in 0 .. Len(p) /\ n - 1 \notin Bad
      BY <2>1, <2>3
    <3>2. PICK P : IsPathsUpTo(n - 1, P)
      BY <3>1
    <3> DEFINE Q == [id \in 0 .. n |-> IF id = n THEN {n} \cup P[p[n].pred] ELSE P[id]]
    <3>3. \A id \in 0 .. n : Q[id] = PathsTo(Q, p, id)
      <4> SUFFICES ASSUME NEW id \in 0 .. n PROVE Q[id] = PathsTo(Q, p, id)
        OBVIOUS
      <4>1. n \in Nat /\ id \in Nat /\ id <= n /\ n <= Len(p)
        BY <3>1
      <4>2. id # 0 => p[id].pred \in 0 .. n - 1
        BY <4>1
      <4>3. id # 0 => Q[p[id].pred] = P[p[id].pred]
        BY <4>2, <4>1
      <4>4. CASE id = n
        <5>1. Q[id] = {n} \cup P[p[n].pred]
          BY <4>4
        <5> HIDE DEF Q
        <5> QED
          BY <5>1, <4>3, <4>4, <3>1 DEF PathsTo
      <4>5. CASE id # n
        <5>1. id \in 0 .. n - 1
          BY <4>1, <4>5
        <5>2. P[id] = PathsTo(P, p, id)
          BY <5>1, <3>2
        <5>3. Q[id] = P[id]
          BY <4>5
        <5> HIDE DEF Q
        <5> QED
          BY <5>2, <5>3, <4>3 DEF PathsTo
      <4> QED
        BY <4>4, <4>5
    <3>4. IsPathsUpTo(n, Q)
      <4>1. Q = [id \in 0 .. n |-> Q[id]]
        OBVIOUS
      <4> HIDE DEF Q
      <4> QED
        BY <4>1, <3>3
    <3> QED
      BY <3>4, <2>1
  <2> QED
    BY <2>2, <2>3
<1>2. \E P : IsPathsUpTo(Len(p), P)
  BY <1>1
<1>3. Paths(p) = [id \in 0 .. Len(p) |-> PathsTo(Paths(p), p, id)]
  BY <1>2 DEF Paths
<1>4. \A id \in 0 .. Len(p) : Paths(p)[id] = PathsTo(Paths(p), p, id)
  BY <1>3
<1>5. 0 \in 0 .. Len(p) /\ 1 .. Len(p) \subseteq 0 .. Len(p) /\ 0 \notin 1 .. Len(p)
  OBVIOUS
<1>6. ASSUME NEW id \in 1 .. Len(p)
      PROVE  Paths(p)[id] = {id} \cup Paths(p)[p[id].pred]
  <2>1. id \in 0 .. Len(p) /\ id # 0
    BY <1>5
  <2> QED
    BY <1>4, <2>1 DEF PathsTo
<1> QED
  BY <1>4, <1>5, <1>6 DEF PathsTo

\* A pool that is extended keeps its paths.
LEMMA PathsKept ==
    ASSUME NEW p, NEW q, Len(p) \in Nat, Len(q) \in Nat, Len(p) <= Len(q),
           \A id \in 1 .. Len(p) : p[id].pred \in 0 .. id - 1,
           \A id \in 1 .. Len(q) : q[id].pred \in 0 .. id - 1,
           \A id \in 1 .. Len(p) : q[id].pred = p[id].pred
    PROVE  \A id \in 0 .. Len(p) : Paths(q)[id] = Paths(p)[id]
<1> DEFINE Bad == {id \in 0 .. Len(p) : Paths(q)[id] # Paths(p)[id]}
<1> SUFFICES ASSUME Bad # {} PROVE FALSE
  OBVIOUS
<1>1. PICK n \in Bad : \A m \in Bad : n <= m
  <2>1. Bad \in SUBSET Nat
    OBVIOUS
  <2> HIDE DEF Bad
  <2> QED
    BY <2>1, NatHasLeast
<1>2. n # 0
  BY <1>1, PathsDefined
<1>3. n \in Nat /\ n \in 1 .. Len(p) /\ n \in 1 .. Len(q)
  BY <1>2
<1>4. /\ Paths(p)[n] = {n} \cup Paths(p)[p[n].pred]
      /\ Paths(q)[n] = {n} \cup Paths(q)[q[n].pred]
  <2> HIDE DEF Bad
  <2> QED
    BY <1>3, PathsDefined
<1>5. q[n].pred = p[n].pred /\ p[n].pred \in 0 .. n - 1
  BY <1>3
<1>6. p[n].pred \in 0 .. Len(p) /\ ~(n <= p[n].pred)
  BY <1>3, <1>5
<1>7. p[n].pred \notin Bad
  BY <1>1, <1>6
<1> QED
  BY <1>4, <1>5, <1>6, <1>7

(***************************************************************************)
(* The inductive invariant.                                                *)
(***************************************************************************)

IsState(s) ==
    s = [node |-> s.node, locals |-> s.locals, known |-> s.known, stack |-> s.stack,
         pred |-> s.pred, gen |-> s.gen, new |-> s.new]

ValuesBelow(f, n) == \A r \in DOMAIN f : f[r] \in 0 .. n - 1

\* The nodes of __entry: the call of main, the end, the terminal node.
EntryNodes ==
    LET callMain == program.code[program.entry]
        finish   == program.code[callMain.next]
    IN  {program.entry, callMain.next, finish.next}

\* A state, when n is the next ValueId.  While no call is suspended the node
\* is one of __entry, and the outermost suspended call returns to one of these,
\* so that no return meets an empty stack.
StateOK(s, n, entryNodes) ==
    /\ IsState(s)
    /\ s.new \in BOOLEAN
    /\ ValuesBelow(s.locals, n)
    /\ DOMAIN s.known \subseteq 2 .. n - 1
    /\ \A v \in DOMAIN s.known : s.known[v] \in BOOLEAN
    /\ s.stack \in Seq(ToSet(s.stack))
    /\ \A i \in DOMAIN s.stack : ValuesBelow(s.stack[i].locals, n)
    /\ IF s.stack = <<>> THEN s.node \in entryNodes
       ELSE s.stack[1].retNode \in entryNodes

PoolInv ==
    /\ WellFormed(program)
    /\ nextVal \in program.nextVal .. MaxVal
    /\ crashed \in BOOLEAN
    /\ pool \in Seq(ToSet(pool))
    /\ worklist \in Seq(Ids)
    /\ \A id \in Ids :
          /\ StateOK(pool[id], nextVal, EntryNodes)
          /\ pool[id].pred \in 0 .. id - 1
          /\ pool[id].pred # 0 => ~pool[pool[id].pred].new

EngineInv == PoolInv /\ NothingLost /\ DepthFirst /\ OnePathPerRun

(***************************************************************************)
(* What one iteration does to the pool and the worklist.                   *)
(***************************************************************************)

\* The pool after an iteration that marked state Id and added successors.
Extends(successors) ==
    /\ pool' \in Seq(ToSet(pool'))
    /\ Len(pool') = Len(pool) + Len(successors)
    /\ \A id \in Ids :
          /\ IsState(pool'[id])
          /\ pool'[id].node = pool[id].node
          /\ pool'[id].locals = pool[id].locals
          /\ pool'[id].known = pool[id].known
          /\ pool'[id].stack = pool[id].stack
          /\ pool'[id].pred = pool[id].pred
          /\ pool'[id].new = (id # Id /\ pool[id].new)
    /\ \A i \in 1 .. Len(successors) : pool'[Len(pool) + i] = successors[i]

\* The worklist, with the new states in front, the newest first.
Enqueues(successors) ==
    LET n == Len(successors)
    IN  /\ worklist' \in Seq(1 .. Len(pool) + n)
        /\ Len(worklist') = n + Len(worklist) - 1
        /\ \A k \in 1 .. n : worklist'[k] = Len(pool) + n + 1 - k
        /\ \A k \in n + 1 .. Len(worklist') : worklist'[k] = worklist[k - n + 1]

LEMMA PoolFacts ==
    ASSUME PoolInv, Iterates
    PROVE  /\ Len(pool) \in Nat /\ Ids = 1 .. Len(pool)
           /\ Len(worklist) \in Nat \ {0} /\ DOMAIN worklist = 1 .. Len(worklist)
           /\ \A i \in DOMAIN worklist : worklist[i] \in Ids
           /\ Id = worklist[1] /\ Id \in Ids /\ Id # 0
           /\ StateOK(Current, nextVal, EntryNodes)
<1>1. pool \in Seq(ToSet(pool)) /\ worklist \in Seq(Ids) /\ worklist # <<>>
  BY DEF PoolInv, Iterates
<1>2. Len(pool) \in Nat /\ Ids = 1 .. Len(pool)
  BY <1>1, LenProperties DEF Ids
<1>3. /\ Len(worklist) \in Nat \ {0} /\ DOMAIN worklist = 1 .. Len(worklist)
      /\ worklist \in [1 .. Len(worklist) -> Ids]
  BY <1>1, LenProperties, EmptySeq
<1>4. Id = worklist[1] /\ Id \in Ids
  BY <1>1, <1>3, HeadTailProperties DEF Id
<1> QED
  BY <1>2, <1>3, <1>4 DEF PoolInv, Current

LEMMA InsertExtends ==
    ASSUME PoolInv, Iterates, NEW T, NEW successors \in Seq(T),
           pool' = SetExplored(pool, Id) \o successors
    PROVE  Extends(successors)
<1> DEFINE marked == [pool[Id] EXCEPT !.new = FALSE]
           S == ToSet(pool) \cup T \cup {marked}
           states == SetExplored(pool, Id)
<1>1. /\ Len(pool) \in Nat /\ Ids = 1 .. Len(pool) /\ Id \in 1 .. Len(pool)
      /\ DOMAIN pool = 1 .. Len(pool)
  BY PoolFacts DEF Ids
<1>2. pool \in Seq(S) /\ successors \in Seq(S) /\ marked \in S
  <2>1. ToSet(pool) \subseteq S /\ T \subseteq S /\ marked \in S
    OBVIOUS
  <2> HIDE DEF S
  <2> QED
    BY <2>1, SeqMonotonic DEF PoolInv
<1>3. states = [pool EXCEPT ![Id] = marked]
  BY <1>1 DEF SetExplored
<1>4. /\ states \in Seq(S) /\ Len(states) = Len(pool)
      /\ \A id \in 1 .. Len(pool) : states[id] = IF id = Id THEN marked ELSE pool[id]
  <2> HIDE DEF S, marked, states
  <2> QED
    BY <1>1, <1>2, <1>3, ExceptSeq
<1>5. /\ pool' \in Seq(S)
      /\ Len(pool') = Len(pool) + Len(successors)
      /\ Len(successors) \in Nat
      /\ \A i \in 1 .. Len(pool) + Len(successors) :
            pool'[i] = IF i <= Len(pool) THEN states[i] ELSE successors[i - Len(pool)]
  <2>1. pool' = states \o successors
    OBVIOUS
  <2> HIDE DEF S, states
  <2>2. /\ pool' \in Seq(S)
        /\ Len(pool') = Len(states) + Len(successors)
        /\ \A i \in 1 .. Len(states) + Len(successors) :
              pool'[i] = IF i <= Len(states) THEN states[i] ELSE successors[i - Len(states)]
    <3>1. states \in Seq(S) /\ successors \in Seq(S)
      BY <1>2, <1>4
    <3>2. /\ states \o successors \in Seq(S)
          /\ Len(states \o successors) = Len(states) + Len(successors)
          /\ \A i \in 1 .. Len(states) + Len(successors) :
                (states \o successors)[i] =
                    IF i <= Len(states) THEN states[i] ELSE successors[i - Len(states)]
      BY ONLY <3>1, ConcatProperties
    <3> QED
      BY ONLY <2>1, <3>2
  <2>3. Len(successors) \in Nat
    BY <1>2, LenProperties
  <2> QED
    BY <2>2, <2>3, <1>4
<1> HIDE DEF S, states
<1>6. pool' \in Seq(ToSet(pool'))
  BY <1>5, SeqToSet
<1>7. \A i \in 1 .. Len(successors) : pool'[Len(pool) + i] = successors[i]
  <2> SUFFICES ASSUME NEW i \in 1 .. Len(successors)
               PROVE  pool'[Len(pool) + i] = successors[i]
    OBVIOUS
  <2>1. /\ Len(pool) + i \in 1 .. Len(pool) + Len(successors)
        /\ ~(Len(pool) + i <= Len(pool)) /\ Len(pool) + i - Len(pool) = i
    BY <1>1, <1>5
  <2> QED
    BY <2>1, <1>5
<1>8. ASSUME NEW id \in Ids
      PROVE  /\ IsState(pool'[id])
             /\ pool'[id].node = pool[id].node
             /\ pool'[id].locals = pool[id].locals
             /\ pool'[id].known = pool[id].known
             /\ pool'[id].stack = pool[id].stack
             /\ pool'[id].pred = pool[id].pred
             /\ pool'[id].new = (id # Id /\ pool[id].new)
  <2>1. pool'[id] = IF id = Id THEN marked ELSE pool[id]
    <3>1. id \in 1 .. Len(pool) /\ id \in 1 .. Len(pool) + Len(successors) /\ id <= Len(pool)
      BY <1>1, <1>5
    <3> QED
      BY <3>1, <1>4, <1>5
  <2>2. IsState(pool[id]) /\ pool[id].new \in BOOLEAN
    BY DEF PoolInv, StateOK
  <2>3. CASE id = Id
    <3>1. pool'[id] = [pool[id] EXCEPT !.new = FALSE]
      BY <2>1, <2>3
    <3> QED
      BY <3>1, <2>2, <2>3 DEF IsState
  <2>4. CASE id # Id
    BY <2>1, <2>2, <2>4 DEF IsState
  <2> QED
    BY <2>3, <2>4
<1> QED
  BY <1>5, <1>6, <1>7, <1>8 DEF Extends

LEMMA InsertEnqueues ==
    ASSUME PoolInv, Iterates, NEW T, NEW successors \in Seq(T),
           InsertAndEnqueue(successors)
    PROVE  Enqueues(successors)
<1> DEFINE n == Len(successors)
           S == 1 .. Len(pool) + n
           ids == [i \in 1 .. n |-> Len(pool) + i]
           front == Reverse(ids)
           rest == Tail(worklist)
<1>1. n \in Nat /\ DOMAIN successors = 1 .. n
  BY LenProperties
<1>2. /\ Len(pool) \in Nat /\ Ids = 1 .. Len(pool)
      /\ Len(worklist) \in Nat \ {0} /\ worklist \in Seq(Ids) /\ worklist # <<>>
  BY PoolFacts DEF PoolInv, Iterates
<1>3. worklist' = front \o rest
  BY <1>1 DEF InsertAndEnqueue
<1> HIDE DEF n
<1>4. Len(ids) = n
  BY <1>1
<1>5. front = [i \in 1 .. n |-> Len(pool) + (n - i + 1)]
  <2>1. front = [i \in 1 .. Len(ids) |-> ids[Len(ids) - i + 1]]
    BY DEF Reverse
  <2>2. \A i \in 1 .. n : ids[n - i + 1] = Len(pool) + (n - i + 1)
    BY <1>1, <1>2
  <2> HIDE DEF ids, front
  <2> QED
    BY <2>1, <2>2, <1>4
<1>6. \A i \in 1 .. n : Len(pool) + (n - i + 1) \in S
  BY <1>1, <1>2
<1>7. front \in Seq(S) /\ Len(front) = n
  <2>1. front \in [1 .. n -> S]
    BY <1>5, <1>6
  <2> HIDE DEF front, S
  <2> QED
    BY <2>1, <1>1, SeqDef, LenProperties
<1>8. /\ rest \in Seq(S) /\ Len(rest) = Len(worklist) - 1
      /\ \A i \in 1 .. Len(rest) : rest[i] = worklist[i + 1]
      /\ Len(rest) \in Nat
  <2>1. Ids \subseteq S
    BY <1>1, <1>2
  <2>2. rest \in Seq(Ids)
    BY <1>2, HeadTailProperties
  <2> HIDE DEF S
  <2> QED
    BY <2>1, <2>2, <1>2, HeadTailProperties, SeqMonotonic
<1>9. /\ worklist' \in Seq(S) /\ Len(worklist') = n + Len(rest)
      /\ \A k \in 1 .. n + Len(rest) :
            worklist'[k] = IF k <= n THEN front[k] ELSE rest[k - n]
  <2> HIDE DEF S, front, rest
  <2> QED
    BY <1>3, <1>7, <1>8, ConcatProperties
<1>10. \A k \in 1 .. n : worklist'[k] = Len(pool) + n + 1 - k
  <2> SUFFICES ASSUME NEW k \in 1 .. n PROVE worklist'[k] = Len(pool) + n + 1 - k
    OBVIOUS
  <2>1. worklist'[k] = front[k]
    <3> HIDE DEF front, rest
    <3>1. k \in 1 .. n + Len(rest) /\ k <= n
      BY <1>1, <1>8
    <3> QED
      BY <3>1, <1>9
  <2> HIDE DEF front
  <2> QED
    BY <2>1, <1>5, <1>1, <1>2
<1>11. \A k \in n + 1 .. Len(worklist') : worklist'[k] = worklist[k - n + 1]
  <2> SUFFICES ASSUME NEW k \in n + 1 .. Len(worklist')
               PROVE  worklist'[k] = worklist[k - n + 1]
    OBVIOUS
  <2> HIDE DEF front, rest
  <2>1. k \in n + 1 .. n + Len(rest)
    BY <1>9
  <2>2. k - n \in 1 .. Len(rest) /\ k \in 1 .. n + Len(rest) /\ ~(k <= n)
    BY <2>1, <1>1, <1>8
  <2>3. worklist'[k] = rest[k - n] /\ rest[k - n] = worklist[k - n + 1]
    BY <2>2, <1>8, <1>9
  <2> QED
    BY <2>3
<1> HIDE DEF front, rest, ids
<1> QED
  BY <1>1, <1>2, <1>8, <1>9, <1>10, <1>11 DEF Enqueues, n

\* Successors as the operations create them.
GoodSuccessors(successors) ==
    /\ Len(successors) \in Nat
    /\ \A i \in 1 .. Len(successors) :
          /\ StateOK(successors[i], nextVal', EntryNodes)
          /\ successors[i].pred = Id
          /\ successors[i].new

LEMMA ExtendedIds ==
    ASSUME PoolInv, Iterates, NEW successors, Len(successors) \in Nat,
           pool' \in Seq(ToSet(pool')), Len(pool') = Len(pool) + Len(successors)
    PROVE  /\ Ids' = 1 .. Len(pool) + Len(successors)
           /\ \A id \in Ids' : \/ id \in Ids
                               \/ \E i \in 1 .. Len(successors) : id = Len(pool) + i
           /\ Ids \subseteq Ids' /\ Id \in Ids'
<1>1. Len(pool) \in Nat /\ Ids = 1 .. Len(pool) /\ Id \in Ids
  BY PoolFacts
<1>2. Ids' = 1 .. Len(pool) + Len(successors)
  BY LenProperties DEF Ids
<1>3. ASSUME NEW id \in 1 .. Len(pool) + Len(successors), id \notin Ids
      PROVE  \E i \in 1 .. Len(successors) : id = Len(pool) + i
  <2>1. id - Len(pool) \in 1 .. Len(successors) /\ id = Len(pool) + (id - Len(pool))
    BY <1>1, <1>3
  <2> QED
    BY <2>1
<1> QED
  BY <1>1, <1>2, <1>3

LEMMA StateGrows ==
    ASSUME NEW s, NEW t, NEW n \in Nat, NEW m \in Nat, n <= m, NEW nodes,
           StateOK(s, n, nodes),
           IsState(t), t.new \in BOOLEAN, t.node = s.node, t.locals = s.locals,
           t.known = s.known, t.stack = s.stack
    PROVE  StateOK(t, m, nodes)
<1>1. 0 .. n - 1 \subseteq 0 .. m - 1 /\ 2 .. n - 1 \subseteq 2 .. m - 1
  OBVIOUS
<1>2. ASSUME NEW f, ValuesBelow(f, n) PROVE ValuesBelow(f, m)
  BY <1>1, <1>2 DEF ValuesBelow
<1> QED
  BY <1>1, <1>2 DEF StateOK

LEMMA NextValNat ==
    ASSUME PoolInv
    PROVE  /\ MaxVal \in Nat /\ nextVal \in Nat /\ program.nextVal \in Nat
           /\ 2 <= program.nextVal /\ program.nextVal <= nextVal /\ nextVal <= MaxVal
           /\ WellFormed(program)
<1>1. WellFormed(program)
  BY DEF PoolInv
<1>2. MaxVal \in Nat
  BY LoopBoundsAssumption
<1>3. program.nextVal \in 2 .. MaxVal
  BY <1>1 DEF WellFormed, WellFormedEntry, WellFormedNames
<1> QED
  BY <1>1, <1>2, <1>3 DEF PoolInv

LEMMA InsertPoolInv ==
    ASSUME PoolInv, Iterates, NEW successors, GoodSuccessors(successors),
           Extends(successors), Enqueues(successors),
           program' = program, nextVal' \in nextVal .. MaxVal, crashed' \in BOOLEAN
    PROVE  PoolInv'
<1>1. /\ Len(pool) \in Nat /\ Ids = 1 .. Len(pool) /\ Id \in Ids
      /\ Len(successors) \in Nat
  BY PoolFacts DEF GoodSuccessors
<1>2. /\ pool' \in Seq(ToSet(pool'))
      /\ Ids' = 1 .. Len(pool) + Len(successors)
      /\ Ids \subseteq Ids'
  BY <1>1, ExtendedIds DEF Extends
<1>3. nextVal \in Nat /\ nextVal' \in Nat /\ nextVal <= nextVal'
      /\ nextVal' \in program.nextVal .. MaxVal
  BY NextValNat
<1>4. EntryNodes' = EntryNodes
  BY DEF EntryNodes
<1>5. worklist' \in Seq(Ids')
  BY <1>2 DEF Enqueues
<1>6. ASSUME NEW id \in Ids
      PROVE  /\ StateOK(pool'[id], nextVal', EntryNodes)
             /\ pool'[id].pred \in 0 .. id - 1
             /\ pool'[id].pred # 0 => ~pool'[pool'[id].pred].new
  <2>1. /\ StateOK(pool[id], nextVal, EntryNodes)
        /\ pool[id].pred \in 0 .. id - 1
        /\ pool[id].pred # 0 => ~pool[pool[id].pred].new
    BY DEF PoolInv
  <2>2. /\ IsState(pool'[id])
        /\ pool'[id].node = pool[id].node
        /\ pool'[id].locals = pool[id].locals
        /\ pool'[id].known = pool[id].known
        /\ pool'[id].stack = pool[id].stack
        /\ pool'[id].pred = pool[id].pred
        /\ pool'[id].new \in BOOLEAN
    BY DEF Extends
  <2>3. StateOK(pool'[id], nextVal', EntryNodes)
    BY <2>1, <2>2, <1>3, StateGrows
  <2>4. pool[id].pred # 0 => pool[id].pred \in Ids
    BY <1>1, <2>1
  <2> QED
    BY <2>1, <2>2, <2>3, <2>4 DEF Extends
<1>7. ASSUME NEW i \in 1 .. Len(successors), NEW id, id = Len(pool) + i
      PROVE  /\ StateOK(pool'[id], nextVal', EntryNodes)
             /\ pool'[id].pred \in 0 .. id - 1
             /\ pool'[id].pred # 0 => ~pool'[pool'[id].pred].new
  <2>1. pool'[id] = successors[i]
    BY <1>7 DEF Extends
  <2>2. /\ StateOK(pool'[id], nextVal', EntryNodes)
        /\ pool'[id].pred = Id
    BY <2>1 DEF GoodSuccessors
  <2>3. Id \in 0 .. id - 1
    BY <1>1, <1>7
  <2>4. ~pool'[Id].new
    BY <1>1 DEF Extends
  <2> QED
    BY <2>2, <2>3, <2>4
<1>8. \A id \in Ids' :
          /\ StateOK(pool'[id], nextVal', EntryNodes')
          /\ pool'[id].pred \in 0 .. id - 1
          /\ pool'[id].pred # 0 => ~pool'[pool'[id].pred].new
  BY <1>1, <1>2, <1>4, <1>6, <1>7, ExtendedIds DEF Extends
<1> QED
  BY <1>2, <1>3, <1>5, <1>8 DEF PoolInv

\* The worklist after an iteration: who waits, and that nobody waits twice.
LEMMA WaitingAfter ==
    ASSUME PoolInv, NothingLost, Iterates, NEW successors, Len(successors) \in Nat,
           Enqueues(successors)
    PROVE  /\ IsInjective(worklist')
           /\ \A i \in 1 .. Len(successors) : Len(pool) + i \in ToSet(worklist')
           /\ \A id \in ToSet(worklist) : id # Id => id \in ToSet(worklist')
           /\ \A id \in ToSet(worklist') :
                 \/ id \in ToSet(worklist) /\ id # Id
                 \/ \E i \in 1 .. Len(successors) : id = Len(pool) + i
<1> DEFINE n == Len(successors)
<1>1. /\ Len(pool) \in Nat /\ Ids = 1 .. Len(pool) /\ n \in Nat
      /\ Len(worklist) \in Nat \ {0} /\ DOMAIN worklist = 1 .. Len(worklist)
      /\ \A i \in 1 .. Len(worklist) : worklist[i] \in 1 .. Len(pool)
      /\ Id = worklist[1]
  BY PoolFacts
<1>2. \A i, j \in 1 .. Len(worklist) : worklist[i] = worklist[j] => i = j
  BY <1>1 DEF NothingLost, IsInjective
<1>3. /\ Len(worklist') = n + Len(worklist) - 1
      /\ DOMAIN worklist' = 1 .. Len(worklist')
      /\ \A k \in 1 .. n : worklist'[k] = Len(pool) + n + 1 - k
      /\ \A k \in n + 1 .. Len(worklist') : worklist'[k] = worklist[k - n + 1]
  BY LenProperties DEF Enqueues
<1> HIDE DEF n
<1>4. ASSUME NEW k \in 1 .. Len(worklist')
      PROVE  \/ /\ k \in 1 .. n /\ n + 1 - k \in 1 .. n
                /\ worklist'[k] = Len(pool) + (n + 1 - k)
             \/ /\ k \in n + 1 .. Len(worklist') /\ k - n + 1 \in 2 .. Len(worklist)
                /\ worklist'[k] = worklist[k - n + 1]
  BY <1>1, <1>3
<1>5. IsInjective(worklist')
  <2> SUFFICES ASSUME NEW k \in 1 .. Len(worklist'), NEW l \in 1 .. Len(worklist'),
                      worklist'[k] = worklist'[l]
               PROVE  k = l
    BY <1>3 DEF IsInjective
  <2>1. k \in Int /\ l \in Int
    BY <1>3
  <2>2. CASE k \in 1 .. n /\ l \in 1 .. n
    BY <2>1, <2>2, <1>1, <1>4
  <2>3. CASE k \in n + 1 .. Len(worklist') /\ l \in n + 1 .. Len(worklist')
    <3>1. /\ k - n + 1 \in 1 .. Len(worklist) /\ l - n + 1 \in 1 .. Len(worklist)
          /\ worklist[k - n + 1] = worklist[l - n + 1]
      BY <2>3, <1>1, <1>3
    <3>2. k - n + 1 = l - n + 1
      BY <3>1, <1>2
    <3> QED
      BY <3>2, <2>1, <1>1
  <2>4. ASSUME NEW a \in 1 .. n, NEW b \in n + 1 .. Len(worklist')
        PROVE  worklist'[a] # worklist'[b]
    <3>1. b - n + 1 \in 1 .. Len(worklist) /\ worklist'[b] = worklist[b - n + 1]
      BY <1>1, <1>3
    <3>2. worklist'[b] \in 1 .. Len(pool)
      BY <3>1, <1>1
    <3> QED
      BY <3>2, <1>1, <1>3
  <2> QED
    BY <2>2, <2>3, <2>4, <1>4
<1>6. ASSUME NEW i \in 1 .. n PROVE Len(pool) + i \in ToSet(worklist')
  <2>1. n + 1 - i \in 1 .. n /\ n + 1 - i \in 1 .. Len(worklist')
    BY <1>1, <1>3
  <2>2. worklist'[n + 1 - i] = Len(pool) + i
    BY <2>1, <1>1, <1>3
  <2> QED
    BY <2>1, <2>2, <1>3 DEF ToSet
<1>7. ASSUME NEW id \in ToSet(worklist), id # Id PROVE id \in ToSet(worklist')
  <2>1. PICK i \in 1 .. Len(worklist) : id = worklist[i]
    BY <1>1 DEF ToSet
  <2>2. i # 1
    BY <2>1, <1>1, <1>7
  <2>3. PICK k \in n + 1 .. Len(worklist') : k - n + 1 = i /\ k \in 1 .. Len(worklist')
    <3>1. i + n - 1 \in n + 1 .. Len(worklist') /\ i + n - 1 \in 1 .. Len(worklist')
      BY <2>1, <2>2, <1>1, <1>3
    <3>2. (i + n - 1) - n + 1 = i
      BY <2>1, <1>1
    <3> QED
      BY <3>1, <3>2
  <2>4. worklist'[k] = worklist[i]
    BY <2>3, <1>3
  <2> QED
    BY <2>1, <2>3, <2>4, <1>3 DEF ToSet
<1>8. ASSUME NEW id \in ToSet(worklist')
      PROVE  \/ id \in ToSet(worklist) /\ id # Id
             \/ \E i \in 1 .. n : id = Len(pool) + i
  <2>1. PICK k \in 1 .. Len(worklist') : id = worklist'[k]
    BY <1>3 DEF ToSet
  <2>2. CASE k - n + 1 \in 2 .. Len(worklist) /\ worklist'[k] = worklist[k - n + 1]
    <3>1. k - n + 1 \in 1 .. Len(worklist) /\ k - n + 1 # 1 /\ 1 \in 1 .. Len(worklist)
      BY <2>2, <1>1
    <3>2. id # Id
      BY <2>1, <2>2, <3>1, <1>1, <1>2
    <3> QED
      BY <2>1, <2>2, <3>1, <3>2, <1>1 DEF ToSet
  <2>3. CASE n + 1 - k \in 1 .. n /\ worklist'[k] = Len(pool) + (n + 1 - k)
    BY <2>1, <2>3
  <2> QED
    BY <1>4, <2>2, <2>3
<1> QED
  BY <1>5, <1>6, <1>7, <1>8 DEF n

LEMMA InsertNothingLost ==
    ASSUME PoolInv, NothingLost, Iterates, NEW successors, GoodSuccessors(successors),
           Extends(successors), Enqueues(successors), program' = program
    PROVE  NothingLost'
<1>1. /\ Len(successors) \in Nat /\ Id \in Ids /\ ToSet(worklist) \subseteq Ids
      /\ Ids = 1 .. Len(pool) /\ Len(pool) \in Nat
  BY PoolFacts DEF GoodSuccessors, ToSet
<1>2. ASSUME NEW i \in 1 .. Len(successors)
      PROVE  pool'[Len(pool) + i].new
  BY DEF Extends, GoodSuccessors
<1>3. ASSUME NEW id \in ToSet(worklist') PROVE pool'[id].new
  <2>1. CASE id \in ToSet(worklist) /\ id # Id
    BY <2>1, <1>1 DEF Extends, NothingLost
  <2> QED
    BY <2>1, <1>1, <1>2, <1>3, WaitingAfter
<1>4. ASSUME NEW id \in Ids', pool'[id].new
      PROVE  id \in ToSet(worklist') \/ pool'[id].node \notin DOMAIN program.code
  <2>1. CASE id \in Ids
    <3>1. pool[id].new /\ id # Id /\ pool'[id].node = pool[id].node
      BY <2>1, <1>4 DEF Extends
    <3>2. id \in ToSet(worklist) \/ AtTerminal(pool[id])
      BY <2>1, <3>1 DEF NothingLost, Iterates
    <3> QED
      BY <3>1, <3>2, <1>1, WaitingAfter DEF AtTerminal
  <2>2. CASE \E i \in 1 .. Len(successors) : id = Len(pool) + i
    BY <2>2, <1>1, WaitingAfter
  <2> QED
    BY <2>1, <2>2, <1>1, ExtendedIds DEF Extends
<1>5. \A id \in Ids' : pool'[id].new => id \in ToSet(worklist') \/ AtTerminal(pool[id])'
  BY <1>4 DEF AtTerminal
<1>6. IsInjective(worklist')
  BY <1>1, WaitingAfter
<1> QED
  BY <1>3, <1>5, <1>6 DEF NothingLost

\* The new states wait in front: the path to each goes through state Id, and
\* with it through what the path to Id has left behind.
LEMMA StepDepthFirst ==
    ASSUME PoolInv, PoolInv', DepthFirst, Iterates,
           NEW successors, Len(successors) \in Nat, Enqueues(successors),
           Len(pool') = Len(pool) + Len(successors),
           \A id \in Ids : pool'[id].pred = pool[id].pred,
           \A i \in 1 .. Len(successors) : pool'[Len(pool) + i].pred = Id
    PROVE  DepthFirst'
<1> DEFINE n == Len(successors)
<1>1. /\ Len(pool) \in Nat /\ Ids = 1 .. Len(pool) /\ n \in Nat /\ Len(pool') = Len(pool) + n
      /\ Len(worklist) \in Nat \ {0} /\ DOMAIN worklist = 1 .. Len(worklist)
      /\ \A i \in 1 .. Len(worklist) : worklist[i] \in 1 .. Len(pool)
      /\ Id = worklist[1] /\ Id \in Ids
  BY PoolFacts
<1>2. /\ Len(worklist') = n + Len(worklist) - 1
      /\ DOMAIN worklist' = 1 .. Len(worklist')
      /\ \A k \in 1 .. n : worklist'[k] = Len(pool) + n + 1 - k
      /\ \A k \in n + 1 .. Len(worklist') : worklist'[k] = worklist[k - n + 1]
  BY LenProperties DEF Enqueues
<1>3. /\ \A id \in 1 .. Len(pool) : pool[id].pred \in 0 .. id - 1
      /\ \A id \in 1 .. Len(pool') : pool'[id].pred \in 0 .. id - 1
  <2>1. Ids' = 1 .. Len(pool')
    BY ExtendedIds, <1>1 DEF PoolInv
  <2> QED
    BY <2>1, <1>1 DEF PoolInv
<1>4. \A id \in 0 .. Len(pool) : Paths(pool')[id] = Paths(pool)[id]
  <2>1. Len(pool') \in Nat /\ Len(pool) <= Len(pool')
    BY <1>1
  <2> QED
    BY <2>1, <1>1, <1>3, PathsKept
<1>5. \A id \in 1 .. Len(pool') :
          Paths(pool')[id] = {id} \cup Paths(pool')[pool'[id].pred]
  <2>1. Len(pool') \in Nat
    BY <1>1
  <2> QED
    BY ONLY <2>1, <1>3, PathsDefined
<1>6. /\ \A i, j \in 1 .. Len(worklist) :
            i < j => pool[worklist[j]].pred \in Paths(pool)[worklist[i]]
      /\ Id \in Paths(pool')[Id]
  <2>1. Id \in 1 .. Len(pool')
    BY <1>1
  <2>2. Id \in Paths(pool')[Id]
    BY <2>1, <1>5
  <2> QED
    BY <2>2, <1>1, PathIsPaths DEF DepthFirst
<1> HIDE DEF n
<1>7. ASSUME NEW i \in 1 .. n
      PROVE  /\ pool'[worklist'[i]].pred = Id
             /\ Paths(pool')[worklist'[i]] = {worklist'[i]} \cup Paths(pool')[Id]
  <2>1. /\ n + 1 - i \in 1 .. n /\ worklist'[i] = Len(pool) + (n + 1 - i)
        /\ worklist'[i] \in 1 .. Len(pool')
    BY <1>1, <1>2
  <2>2. pool'[worklist'[i]].pred = Id
    BY <2>1 DEF n
  <2> QED
    BY <2>1, <2>2, <1>5
<1>8. ASSUME NEW j \in n + 1 .. Len(worklist')
      PROVE  /\ j - n + 1 \in 2 .. Len(worklist)
             /\ worklist'[j] = worklist[j - n + 1] /\ worklist'[j] \in Ids
             /\ pool'[worklist'[j]].pred = pool[worklist[j - n + 1]].pred
  <2>1. j - n + 1 \in 2 .. Len(worklist) /\ j - n + 1 \in 1 .. Len(worklist)
    BY <1>1, <1>2
  <2> QED
    BY <2>1, <1>1, <1>2
<1>9. ASSUME NEW i \in 1 .. Len(worklist'), NEW j \in 1 .. Len(worklist'), i < j
      PROVE  pool'[worklist'[j]].pred \in Paths(pool')[worklist'[i]]
  <2>1. i \in Int /\ j \in Int
    BY <1>2
  <2>2. CASE j \in 1 .. n
    <3>1. i \in 1 .. n
      BY <2>1, <2>2, <1>1, <1>9
    <3> QED
      BY <3>1, <2>2, <1>6, <1>7
  <2>3. CASE i \in 1 .. n /\ j \in n + 1 .. Len(worklist')
    <3>1. j - n + 1 \in 1 .. Len(worklist) /\ 1 < j - n + 1 /\ 1 \in 1 .. Len(worklist)
      BY <2>3, <1>1, <1>8
    <3>2. pool[worklist[j - n + 1]].pred \in Paths(pool)[worklist[1]]
      BY <3>1, <1>6
    <3>3. pool'[worklist'[j]].pred \in Paths(pool')[Id]
      <4>1. Id \in 0 .. Len(pool)
        BY <1>1
      <4> QED
        BY <4>1, <3>2, <2>3, <1>1, <1>4, <1>8
    <3> QED
      BY <3>3, <2>3, <1>7
  <2>4. CASE i \in n + 1 .. Len(worklist') /\ j \in n + 1 .. Len(worklist')
    <3>1. /\ i - n + 1 \in 1 .. Len(worklist) /\ j - n + 1 \in 1 .. Len(worklist)
          /\ i - n + 1 < j - n + 1
      BY <2>1, <2>4, <1>1, <1>8, <1>9
    <3>2. pool[worklist[j - n + 1]].pred \in Paths(pool)[worklist[i - n + 1]]
      BY <3>1, <1>6
    <3>3. worklist[i - n + 1] \in 0 .. Len(pool)
      BY <3>1, <1>1
    <3> QED
      BY <3>2, <3>3, <2>4, <1>4, <1>8
  <2> QED
    BY <2>1, <2>2, <2>3, <2>4, <1>1, <1>2, <1>9
<1> QED
  BY <1>2, <1>9, PathPrime DEF DepthFirst

\* Each run of the current state, if it has successors, goes on with one of them.
ShareRuns(successors) ==
    \A in \in Inputs :
        IF successors # <<>> /\ Consistent(Current, in)
        THEN \E i \in 1 .. Len(successors) :
                \A j \in 1 .. Len(successors) : Consistent(successors[j], in) <=> i = j
        ELSE \A j \in 1 .. Len(successors) : ~Consistent(successors[j], in)

\* The runs: as the state that is executed has no successors yet, it is what
\* its runs have reached, and now its successors share them out.
LEMMA InsertReached ==
    ASSUME PoolInv, Iterates, Current.new,
           NEW successors, GoodSuccessors(successors), Extends(successors),
           ShareRuns(successors),
           NEW in \in Inputs, NEW r, Reached(in) = {r}
    PROVE  IF successors # <<>> /\ Consistent(Current, in)
           THEN /\ r = Id
                /\ \E i \in 1 .. Len(successors) :
                      /\ Consistent(successors[i], in)
                      /\ Reached(in)' = {Len(pool) + i}
           ELSE Reached(in)' = {r}
<1>1. /\ Len(pool) \in Nat /\ Ids = 1 .. Len(pool) /\ Id \in Ids /\ Id # 0
      /\ Len(successors) \in Nat
  BY PoolFacts DEF GoodSuccessors
<1>2. /\ Ids' = 1 .. Len(pool) + Len(successors) /\ Ids \subseteq Ids'
      /\ \A id \in Ids' : \/ id \in Ids
                          \/ \E i \in 1 .. Len(successors) : id = Len(pool) + i
  BY <1>1, ExtendedIds DEF Extends
<1> DEFINE C(s) == Consistent(s, in)
<1>3. /\ r \in Ids /\ C(pool[r])
      /\ \A id \in Ids : /\ C(pool[id])
                         /\ \A t \in Ids : pool[t].pred = id => ~C(pool[t])
                         => id = r
      /\ \A t \in Ids : pool[t].pred = r => ~C(pool[t])
  BY DEF Reached
<1>4. \A id \in Ids : (C(pool'[id]) <=> C(pool[id])) /\ pool'[id].pred = pool[id].pred
  BY DEF Extends, Consistent
<1>5. \A i \in 1 .. Len(successors) :
          /\ pool'[Len(pool) + i] = successors[i] /\ pool'[Len(pool) + i].pred = Id
          /\ Len(pool) + i \in Ids'
  BY <1>1, <1>2 DEF Extends, GoodSuccessors
<1>6. \A t \in Ids : pool[t].pred # Id
  BY <1>1 DEF PoolInv, Current
<1>7. ASSUME NEW t \in Ids' PROVE pool'[t].pred \in Ids \cup {0}
  <2>1. CASE t \in Ids
    <3>1. pool[t].pred \in 0 .. t - 1 /\ pool'[t].pred = pool[t].pred
      BY <2>1, <1>4 DEF PoolInv
    <3> QED
      BY <3>1, <2>1, <1>1
  <2> QED
    BY <2>1, <1>1, <1>2, <1>5
<1>8. Reached(in)' = {id \in Ids' : /\ C(pool'[id])
                                        /\ \A t \in Ids' : pool'[t].pred = id => ~C(pool'[t])}
  BY DEF Reached, Consistent
<1> HIDE DEF C
<1>9. CASE successors # <<>> /\ C(Current)
  <2>1. PICK i \in 1 .. Len(successors) :
            \A j \in 1 .. Len(successors) : C(successors[j]) <=> i = j
    BY <1>9 DEF C, ShareRuns
  <2>2. r = Id
    BY <1>1, <1>3, <1>6, <1>9 DEF Current
  <2>3. Reached(in)' = {Len(pool) + i}
    <3>1. Len(pool) + i \in Reached(in)'
      <4>1. C(pool'[Len(pool) + i]) /\ Len(pool) + i \in Ids'
        BY <2>1, <1>5
      <4>2. \A t \in Ids' : pool'[t].pred # Len(pool) + i
        BY <1>1, <1>7
      <4> QED
        BY <4>1, <4>2, <1>8
    <3>2. ASSUME NEW id \in Reached(in)' PROVE id = Len(pool) + i
      <4>1. /\ id \in Ids' /\ C(pool'[id])
            /\ \A t \in Ids' : pool'[t].pred = id => ~C(pool'[t])
        BY <1>8
      <4>2. CASE id \in Ids
        <5>1. id # Id
          BY <4>1, <2>1, <1>5
        <5>2. \A t \in Ids : pool[t].pred = id => ~C(pool[t])
          BY <4>1, <1>2, <1>4
        <5> QED
          BY <4>1, <4>2, <5>1, <5>2, <2>2, <1>3, <1>4
      <4>3. ASSUME NEW j \in 1 .. Len(successors), id = Len(pool) + j
            PROVE  id = Len(pool) + i
        BY <4>1, <4>3, <2>1, <1>5
      <4> QED
        BY <4>1, <4>2, <4>3, <1>2
    <3> QED
      BY <3>1, <3>2
  <2> QED
    BY <2>1, <2>2, <2>3, <1>9 DEF C
<1>10. CASE ~(successors # <<>> /\ C(Current))
  <2>1. \A j \in 1 .. Len(successors) : ~C(successors[j])
    BY <1>10 DEF C, ShareRuns
  <2>2. Reached(in)' = {r}
    <3>1. r \in Reached(in)'
      <4>1. r \in Ids' /\ C(pool'[r])
        BY <1>2, <1>3, <1>4
      <4>2. \A t \in Ids' : pool'[t].pred = r => ~C(pool'[t])
        BY <1>2, <1>3, <1>4, <1>5, <2>1
      <4> QED
        BY <4>1, <4>2, <1>8
    <3>2. ASSUME NEW id \in Reached(in)' PROVE id = r
      <4>1. /\ id \in Ids' /\ C(pool'[id])
            /\ \A t \in Ids' : pool'[t].pred = id => ~C(pool'[t])
        BY <1>8
      <4>2. id \in Ids
        BY <4>1, <2>1, <1>2, <1>5
      <4> QED
        BY <4>1, <4>2, <1>2, <1>3, <1>4
    <3> QED
      BY <3>1, <3>2
  <2> QED
    BY <2>2, <1>10 DEF C
<1> QED
  BY <1>9, <1>10

\* A run has reached one state.
LEMMA ReachedOne ==
    ASSUME PoolInv, OnePathPerRun, Len(pool) \in Nat, NEW in \in Inputs
    PROVE  \E r \in Ids : Reached(in) = {r} /\ Consistent(pool[r], in)
<1>1. IsFiniteSet(Ids) /\ Reached(in) \subseteq Ids
  <2>1. pool \in Seq(ToSet(pool))
    BY DEF PoolInv
  <2>2. Ids = 1 .. Len(pool)
    BY <2>1, LenProperties DEF Ids
  <2> QED
    BY <2>2, FS_Interval DEF Reached
<1>2. IsFiniteSet(Reached(in))
  BY <1>1, FS_Subset
<1>3. PICK r : Reached(in) = {r}
  BY <1>2, FS_Singleton DEF OnePathPerRun
<1> QED
  BY <1>3 DEF Reached

\* So each run has still reached one state.
LEMMA InsertOnePath ==
    ASSUME PoolInv, OnePathPerRun, Iterates, Current.new,
           NEW successors, GoodSuccessors(successors), Extends(successors),
           program' = program,
           ShareRuns(successors)
    PROVE  OnePathPerRun'
<1>1. Inputs' = Inputs
  BY DEF Inputs, funcMapping
<1> SUFFICES ASSUME NEW in \in Inputs PROVE Cardinality(Reached(in)') = 1
  BY <1>1 DEF OnePathPerRun
<1>2. PICK r : Reached(in) = {r}
  BY PoolFacts, ReachedOne
<1>3. \E q : Reached(in)' = {q}
  BY <1>2, InsertReached
<1> QED
  BY <1>3, FS_Singleton

(***************************************************************************)
(* The successors.                                                         *)
(***************************************************************************)

LEMMA SuccessorFields ==
    ASSUME PoolInv, Iterates, NEW node
    PROVE  LET s == CreateSuccessor(Id, node)
           IN  /\ IsState(s) /\ s.node = node /\ s.pred = Id /\ s.new = TRUE
               /\ s.locals = Current.locals /\ s.known = Current.known
               /\ s.stack = Current.stack
<1> DEFINE s == Current
           t == CreateSuccessor(Id, node)
           id == Id
           gen == Current.gen + 1
           new == TRUE
<1>1. IsState(s)
  BY PoolFacts DEF StateOK
<1>2. t = [s EXCEPT !.node = node, !.pred = id, !.gen = gen, !.new = new]
  BY DEF CreateSuccessor, Current
<1> HIDE DEF s, t, id, gen, new
<1>3. PICK n, l, k, st, p, g, b :
          s = [node |-> n, locals |-> l, known |-> k, stack |-> st,
               pred |-> p, gen |-> g, new |-> b]
  BY <1>1 DEF IsState
<1>4. /\ t.node = node /\ t.pred = id /\ t.new = new
      /\ t.locals = s.locals /\ t.known = s.known /\ t.stack = s.stack
  BY ONLY <1>2, <1>3
<1>5. t = [node |-> t.node, locals |-> t.locals, known |-> t.known, stack |-> t.stack,
           pred |-> t.pred, gen |-> t.gen, new |-> t.new]
  BY ONLY <1>2, <1>3
<1> QED
  BY <1>4, <1>5 DEF IsState, s, t, id, new

\* Inside a call any node will do for a successor.
LEMMA SuccessorOK ==
    ASSUME PoolInv, Iterates, NEW node,
           Current.stack = <<>> => node \in EntryNodes
    PROVE  StateOK(CreateSuccessor(Id, node), nextVal, EntryNodes)
<1>1. StateOK(Current, nextVal, EntryNodes)
  BY PoolFacts
<1> QED
  BY <1>1, SuccessorFields DEF StateOK

\* Outside of any call there are the call of main and the end of the program.
LEMMA EntryInstr ==
    ASSUME PoolInv, Iterates, ~AtTerminal(Current), Current.stack = <<>>
    PROVE  Operates(Instr) \in {"Call", "Noop"} /\ Instr.next \in EntryNodes
<1>1. Current.node \in EntryNodes
  BY PoolFacts DEF StateOK
<1>2. WellFormed(program)
  BY NextValNat
<1> QED
  BY <1>1, <1>2 DEF EntryNodes, WellFormed, WellFormedEntry, WellFormedNames, AtTerminal, Instr

LEMMA ValueBelow ==
    ASSUME PoolInv, Iterates, NEW reg, HasValue(Current, reg)
    PROVE  GetValue(Current, reg) \in 0 .. nextVal - 1
<1>1. StateOK(Current, nextVal, EntryNodes)
  BY PoolFacts
<1>2. /\ WellFormed(program) /\ nextVal \in Nat /\ program.nextVal \in Nat
      /\ program.nextVal <= nextVal
  BY NextValNat
<1>3. ASSUME NEW name \in DOMAIN program.globals
      PROVE  program.globals[name] \in 0 .. nextVal - 1
  <2>1. program.globals[name] \in 0 .. program.nextVal - 1
    BY <1>2 DEF WellFormed, WellFormedEntry, WellFormedNames
  <2> QED
    BY <2>1, <1>2
<1> QED
  BY <1>1, <1>3 DEF GetValue, HasValue, StateOK, ValuesBelow, globalMapping

LEMMA AssignOK ==
    ASSUME NEW s, NEW n \in Nat, NEW m \in Nat, n <= m, NEW nodes, StateOK(s, n, nodes),
           NEW reg, NEW v \in 0 .. m - 1, NEW t, t = AssignValue(s, reg, v)
    PROVE  /\ StateOK(t, m, nodes)
           /\ t.pred = s.pred /\ t.new = s.new /\ t.known = s.known
<1> DEFINE f == LinkToValueId(s.locals, reg, v)
<1>1. t = [s EXCEPT !.locals = f]
  BY DEF AssignValue
<1>2. ValuesBelow(f, m)
  <2>1. ASSUME NEW r \in DOMAIN s.locals PROVE s.locals[r] \in 0 .. m - 1
    <3>1. s.locals[r] \in 0 .. n - 1
      BY DEF StateOK, ValuesBelow
    <3> QED
      BY <3>1
  <2> QED
    BY <2>1 DEF ValuesBelow, LinkToValueId
<1> HIDE DEF f
<1>3. /\ IsState(t) /\ t.locals = f /\ t.node = s.node /\ t.known = s.known
      /\ t.stack = s.stack /\ t.pred = s.pred /\ t.new = s.new
  BY <1>1 DEF StateOK, IsState
<1>4. ASSUME NEW g, ValuesBelow(g, n) PROVE ValuesBelow(g, m)
  <2>1. 0 .. n - 1 \subseteq 0 .. m - 1
    OBVIOUS
  <2> QED
    BY <2>1, <1>4 DEF ValuesBelow
<1>5. 2 .. n - 1 \subseteq 2 .. m - 1
  OBVIOUS
<1>6. StateOK(t, m, nodes)
  BY <1>2, <1>3, <1>4, <1>5 DEF StateOK
<1> QED
  BY <1>3, <1>6

\* State t is s with the assumption that v is b.
Assumes(s, n, nodes, v, b, t) ==
    /\ StateOK(t, n, nodes)
    /\ t.pred = s.pred /\ t.new = s.new
    /\ v \in Constants => t = s
    /\ \A in : v \notin Constants /\ (v \in DOMAIN s.known => s.known[v] = b)
          => (Consistent(t, in) <=> Consistent(s, in) /\ b = in[v])

\* What a value is assumed to be splits the runs.
LEMMA AssumeOK ==
    ASSUME NEW s, NEW n \in Nat, NEW nodes, StateOK(s, n, nodes),
           NEW v, v \in 0 .. n - 1, NEW b, b \in BOOLEAN, NEW t, t = Assume(s, v, b)
    PROVE  Assumes(s, n, nodes, v, b, t)
<1> DEFINE f == LinkToValueId(s.known, v, b)
<1>1. CASE v \in Constants
  BY <1>1 DEF Assume, Assumes
<1>2. CASE v \notin Constants
  <2>1. t = [s EXCEPT !.known = f]
    BY <1>2 DEF Assume
  <2>2. DOMAIN f = DOMAIN s.known \cup {v}
        /\ \A r \in DOMAIN f : f[r] = IF r = v THEN b ELSE s.known[r]
    BY DEF LinkToValueId
  <2> HIDE DEF f
  <2>3. /\ IsState(t) /\ t.locals = s.locals /\ t.node = s.node /\ t.known = f
        /\ t.stack = s.stack /\ t.pred = s.pred /\ t.new = s.new
    BY <2>1 DEF StateOK, IsState
  <2>4. v \in 2 .. n - 1
    BY <1>2 DEF Constants
  <2>5. StateOK(t, n, nodes)
    BY <2>2, <2>3, <2>4 DEF StateOK
  <2>6. ASSUME NEW in, v \in DOMAIN s.known => s.known[v] = b
        PROVE  Consistent(t, in) <=> Consistent(s, in) /\ b = in[v]
    BY <2>2, <2>3, <2>6 DEF Consistent
  <2> QED
    BY <1>2, <2>3, <2>5, <2>6 DEF Assumes
<1> QED
  BY <1>1, <1>2

(***************************************************************************)
(* The actions.                                                            *)
(***************************************************************************)

\* What an iteration does that marks the current state and adds successors.
Explores(successors) ==
    /\ Iterates /\ Current.new
    /\ GoodSuccessors(successors) /\ ShareRuns(successors)
    /\ Extends(successors) /\ Enqueues(successors)
    /\ program' = program /\ nextVal' \in nextVal .. MaxVal /\ crashed' \in BOOLEAN

LEMMA EngineStep ==
    ASSUME EngineInv, NEW successors, Explores(successors)
    PROVE  EngineInv'
<1> USE DEF Explores
<1>1. PoolInv'
  BY InsertPoolInv DEF EngineInv
<1>2. NothingLost'
  BY InsertNothingLost DEF EngineInv
<1>3. DepthFirst'
  <2>1. Len(successors) \in Nat /\ Len(pool') = Len(pool) + Len(successors)
    BY DEF GoodSuccessors, Extends
  <2>2. \A id \in Ids : pool'[id].pred = pool[id].pred
    BY DEF Extends
  <2>3. \A i \in 1 .. Len(successors) : pool'[Len(pool) + i].pred = Id
    BY DEF GoodSuccessors, Extends
  <2> QED
    BY <1>1, <2>1, <2>2, <2>3, StepDepthFirst DEF EngineInv
<1>4. OnePathPerRun'
  BY <1>1, InsertOnePath DEF EngineInv
<1> QED
  BY <1>1, <1>2, <1>3, <1>4 DEF EngineInv

LEMMA InsertStep ==
    ASSUME EngineInv, Iterates, Current.new, NEW T, NEW successors \in Seq(T),
           GoodSuccessors(successors), ShareRuns(successors),
           InsertAndEnqueue(successors), nextVal' \in nextVal .. MaxVal
    PROVE  Explores(successors)
<1>1. Extends(successors)
  BY InsertExtends DEF EngineInv, InsertAndEnqueue
<1>2. Enqueues(successors)
  BY InsertEnqueues DEF EngineInv
<1>3. program' = program /\ crashed' \in BOOLEAN
  BY DEF InsertAndEnqueue, EngineInv, PoolInv
<1> QED
  BY <1>1, <1>2, <1>3 DEF Explores

\* One successor goes on with every run.
LEMMA OneSuccessor ==
    ASSUME EngineInv, Iterates, Current.new, NEW s,
           StateOK(s, nextVal', EntryNodes), s.pred = Id, s.new,
           \A in \in Inputs : Consistent(s, in) <=> Consistent(Current, in),
           InsertAndEnqueue(<<s>>), nextVal' \in nextVal .. MaxVal
    PROVE  Explores(<<s>>)
<1> DEFINE successors == <<s>>
<1>1. /\ successors \in Seq({s}) /\ Len(successors) = 1 /\ successors[1] = s
      /\ successors # <<>>
  OBVIOUS
<1>2. InsertAndEnqueue(successors)
  OBVIOUS
<1> HIDE DEF successors
<1>3. 1 .. Len(successors) = {1}
  BY <1>1
<1>4. GoodSuccessors(successors)
  BY <1>1, <1>3 DEF GoodSuccessors
<1>5. ShareRuns(successors)
  BY <1>1, <1>3 DEF ShareRuns
<1>6. Explores(successors)
  BY <1>1, <1>2, <1>4, <1>5, InsertStep
<1> QED
  BY <1>6 DEF successors

LEMMA NoSuccessor ==
    GoodSuccessors(<<>>) /\ ShareRuns(<<>>) /\ <<>> \in Seq({})
<1>1. <<>> \in Seq({}) /\ Len(<<>>) = 0 /\ 1 .. 0 = {}
  OBVIOUS
<1> QED
  BY <1>1 DEF GoodSuccessors, ShareRuns

\* Without successors the worklist just gets shorter.
LEMMA TailEnqueues ==
    ASSUME PoolInv, Iterates, worklist' = Tail(worklist)
    PROVE  Enqueues(<<>>)
<1>1. /\ Len(pool) \in Nat /\ Ids = 1 .. Len(pool)
      /\ worklist \in Seq(Ids) /\ worklist # <<>> /\ Len(worklist) \in Nat
  BY PoolFacts DEF PoolInv, Iterates
<1>2. /\ worklist' \in Seq(Ids) /\ Len(worklist') = Len(worklist) - 1
      /\ \A i \in 1 .. Len(worklist') : worklist'[i] = worklist[i + 1]
  BY <1>1, HeadTailProperties
<1>3. Len(<<>>) = 0
  OBVIOUS
<1> QED
  BY <1>1, <1>2, <1>3 DEF Enqueues

LEMMA NoopStep ==
    ASSUME EngineInv, Noop
    PROVE  Explores(<< CreateSuccessor(Id, Instr.next) >>)
<1> DEFINE s == CreateSuccessor(Id, Instr.next)
<1>1. PoolInv /\ Iterates /\ Current.new /\ ~AtTerminal(Current)
  BY DEF EngineInv, Noop, Executes
<1>2. Current.stack = <<>> => Instr.next \in EntryNodes
  BY <1>1, EntryInstr
<1>3. nextVal' = nextVal /\ nextVal' \in nextVal .. MaxVal /\ InsertAndEnqueue(<<s>>)
  BY <1>1, NextValNat DEF Noop
<1>4. StateOK(s, nextVal', EntryNodes)
  BY <1>1, <1>2, <1>3, SuccessorOK
<1>5. s.pred = Id /\ s.new /\ \A in : Consistent(s, in) <=> Consistent(Current, in)
  BY <1>1, SuccessorFields DEF Consistent
<1> HIDE DEF s
<1>6. Explores(<<s>>)
  BY <1>1, <1>3, <1>4, <1>5, OneSuccessor
<1> QED
  BY <1>6 DEF s

\* The operations that give a register a value, within a call.
LEMMA AssigningStep ==
    ASSUME EngineInv, Iterates, Current.new, Current.stack # <<>>,
           NEW node, NEW reg, nextVal' \in nextVal .. MaxVal, NEW v \in 0 .. nextVal' - 1,
           InsertAndEnqueue(<< AssignValue(CreateSuccessor(Id, node), reg, v) >>)
    PROVE  Explores(<< AssignValue(CreateSuccessor(Id, node), reg, v) >>)
<1> DEFINE s == CreateSuccessor(Id, node)
           t == AssignValue(s, reg, v)
<1>1. PoolInv
  BY DEF EngineInv
<1>2. nextVal \in Nat /\ nextVal' \in Nat /\ nextVal <= nextVal'
  BY <1>1, NextValNat
<1>3. StateOK(s, nextVal, EntryNodes)
  BY <1>1, SuccessorOK
<1>4. s.pred = Id /\ s.new /\ s.known = Current.known
  BY <1>1, SuccessorFields
<1>5. InsertAndEnqueue(<<t>>)
  OBVIOUS
<1> HIDE DEF s
<1>6. StateOK(t, nextVal', EntryNodes) /\ t.pred = s.pred /\ t.new = s.new /\ t.known = s.known
  <2> DEFINE n == nextVal
             m == nextVal'
             nodes == EntryNodes
  <2>1. n \in Nat /\ m \in Nat /\ n <= m /\ StateOK(s, n, nodes) /\ v \in 0 .. m - 1
    BY <1>2, <1>3
  <2>2. t = AssignValue(s, reg, v)
    OBVIOUS
  <2> HIDE DEF t, n, m, nodes
  <2>3. StateOK(t, m, nodes) /\ t.pred = s.pred /\ t.new = s.new /\ t.known = s.known
    BY ONLY <2>1, <2>2, AssignOK
  <2> QED
    BY <2>3 DEF m, nodes
<1> HIDE DEF t
<1>7. \A in : Consistent(t, in) <=> Consistent(Current, in)
  BY <1>4, <1>6 DEF Consistent
<1>8. Explores(<<t>>)
  BY <1>4, <1>5, <1>6, <1>7, OneSuccessor
<1> QED
  BY <1>8 DEF t, s

LEMMA CreateUnknownStep ==
    ASSUME EngineInv, CreateUnknown
    PROVE  Explores(<< AssignValue(CreateSuccessor(Id, Instr.next), Instr.target, nextVal) >>)
<1>1. PoolInv /\ Iterates /\ Current.new /\ ~AtTerminal(Current)
  BY DEF EngineInv, CreateUnknown, Executes
<1>2. Current.stack # <<>>
  BY <1>1, EntryInstr DEF CreateUnknown, Executes
<1>3. nextVal' \in nextVal .. MaxVal /\ nextVal \in 0 .. nextVal' - 1
  BY <1>1, NextValNat DEF CreateUnknown
<1> QED
  BY <1>1, <1>2, <1>3, AssigningStep DEF CreateUnknown

LEMMA CastStep ==
    ASSUME EngineInv, Cast
    PROVE  Explores(<< AssignValue(CreateSuccessor(Id, Instr.next), Instr.target,
                                   GetValue(Current, Instr.arg)) >>)
<1>1. PoolInv /\ Iterates /\ Current.new /\ ~AtTerminal(Current)
  BY DEF EngineInv, Cast, Executes
<1>2. Current.stack # <<>>
  BY <1>1, EntryInstr DEF Cast, Executes
<1>3. HasValue(Current, Instr.arg)
  BY DEF Cast, Executes, OperandMissing, NeedsOperand
<1>4. nextVal' \in nextVal .. MaxVal /\ GetValue(Current, Instr.arg) \in 0 .. nextVal' - 1
  BY <1>1, <1>3, NextValNat, ValueBelow DEF Cast
<1> QED
  BY <1>1, <1>2, <1>4, AssigningStep DEF Cast

LEMMA AbortStep ==
    ASSUME EngineInv, Abort
    PROVE  Explores(<<>>)
<1>1. PoolInv /\ Iterates /\ Current.new /\ InsertAndEnqueue(<<>>)
  BY DEF EngineInv, Abort, Executes
<1>2. nextVal' \in nextVal .. MaxVal
  BY <1>1, NextValNat DEF Abort
<1> QED
  BY <1>1, <1>2, NoSuccessor, InsertStep

LEMMA PairConcat ==
    ASSUME NEW a, NEW b
    PROVE  <<a>> \o <<b>> = <<a, b>>
<1> DEFINE T == {a, b}
           s == <<a>>
           t == <<b>>
           u == <<a, b>>
<1>1. /\ s \in Seq(T) /\ t \in Seq(T) /\ u \in Seq(T)
      /\ Len(s) = 1 /\ Len(t) = 1 /\ Len(u) = 2
      /\ s[1] = a /\ t[1] = b /\ u[1] = a /\ u[2] = b
  OBVIOUS
<1> HIDE DEF s, t, u, T
<1>2. /\ s \o t \in Seq(T) /\ Len(s \o t) = 2
      /\ (s \o t)[1] = a /\ (s \o t)[2] = b
  BY <1>1, ConcatProperties
<1>3. \A i \in 1 .. 2 : (s \o t)[i] = u[i]
  BY <1>1, <1>2
<1>4. s \o t = u
  BY <1>1, <1>2, <1>3, SeqEqual
<1> QED
  BY <1>4 DEF s, t, u

\* A branch leaves out the sides that are refuted, and parts the runs
\* between the others.
LEMMA BranchStep ==
    ASSUME EngineInv, Branch
    PROVE  Explores(BranchSides(GetValue(Current, Instr.arg)))
<1> DEFINE v == GetValue(Current, Instr.arg)
           toNo == CreateSuccessor(Id, Instr.nextFalse)
           toYes == CreateSuccessor(Id, Instr.next)
           no == Assume(toNo, v, FALSE)
           yes == Assume(toYes, v, TRUE)
           sides == (IF IsTrue(Current, v) THEN <<>> ELSE <<no>>)
                    \o (IF IsFalse(Current, v) THEN <<>> ELSE <<yes>>)
<1>1. PoolInv /\ Iterates /\ Current.new /\ ~AtTerminal(Current)
  BY DEF EngineInv, Branch, Executes
<1>2. Current.stack # <<>>
  BY <1>1, EntryInstr DEF Branch, Executes
<1>3. HasValue(Current, Instr.arg)
  BY DEF Branch, Executes, OperandMissing, NeedsOperand
<1>4. /\ nextVal \in Nat /\ nextVal <= MaxVal /\ MaxVal \in Nat /\ v \in 0 .. nextVal - 1
      /\ nextVal' = nextVal /\ nextVal' \in nextVal .. MaxVal
  BY <1>1, <1>3, NextValNat, ValueBelow DEF Branch
<1>5. /\ DOMAIN Current.known \subseteq 2 .. nextVal - 1
      /\ \A r \in DOMAIN Current.known : Current.known[r] \in BOOLEAN
  BY <1>1, PoolFacts DEF StateOK
<1>6. /\ StateOK(toNo, nextVal, EntryNodes) /\ StateOK(toYes, nextVal, EntryNodes)
      /\ toNo.pred = Id /\ toNo.new /\ toNo.known = Current.known
      /\ toYes.pred = Id /\ toYes.new /\ toYes.known = Current.known
  BY <1>1, <1>2, SuccessorOK, SuccessorFields
<1>7. InsertAndEnqueue(sides) /\ sides = BranchSides(GetValue(Current, Instr.arg))
  BY DEF Branch, BranchSides
<1> HIDE DEF v, toNo, toYes
<1>8. /\ StateOK(no, nextVal', EntryNodes) /\ no.pred = Id /\ no.new
      /\ v \in Constants => no = toNo
      /\ \A in : v \notin Constants /\ (v \in DOMAIN Current.known => Current.known[v] = FALSE)
            => (Consistent(no, in) <=> Consistent(Current, in) /\ FALSE = in[v])
  <2> DEFINE b == FALSE
             n == nextVal
             nodes == EntryNodes
  <2>1. n \in Nat /\ v \in 0 .. n - 1 /\ StateOK(toNo, n, nodes)
    BY <1>4, <1>6
  <2>2. b \in BOOLEAN /\ no = Assume(toNo, v, b)
    OBVIOUS
  <2> HIDE DEF b, n, nodes, no, yes
  <2>3. Assumes(toNo, n, nodes, v, b, no)
    BY ONLY <2>1, <2>2, AssumeOK
  <2>4. \A in : Consistent(toNo, in) <=> Consistent(Current, in)
    BY <1>6 DEF Consistent
  <2> QED
    BY <2>3, <2>4, <1>4, <1>6 DEF b, n, nodes, Assumes
<1>9. /\ StateOK(yes, nextVal', EntryNodes) /\ yes.pred = Id /\ yes.new
      /\ v \in Constants => yes = toYes
      /\ \A in : v \notin Constants /\ (v \in DOMAIN Current.known => Current.known[v] = TRUE)
            => (Consistent(yes, in) <=> Consistent(Current, in) /\ TRUE = in[v])
  <2> DEFINE b == TRUE
             n == nextVal
             nodes == EntryNodes
  <2>1. n \in Nat /\ v \in 0 .. n - 1 /\ StateOK(toYes, n, nodes)
    BY <1>4, <1>6
  <2>2. b \in BOOLEAN /\ yes = Assume(toYes, v, b)
    OBVIOUS
  <2> HIDE DEF b, n, nodes, no, yes
  <2>3. Assumes(toYes, n, nodes, v, b, yes)
    BY ONLY <2>1, <2>2, AssumeOK
  <2>4. \A in : Consistent(toYes, in) <=> Consistent(Current, in)
    BY <1>6 DEF Consistent
  <2> QED
    BY <2>3, <2>4, <1>4, <1>6 DEF b, n, nodes, Assumes
<1> HIDE DEF no, yes
<1>10. ASSUME IsTrue(Current, v) PROVE Explores(sides)
  <2>1. ~IsFalse(Current, v)
    BY <1>4, <1>5, <1>10 DEF IsTrue, IsFalse
  <2>2. sides = <<yes>>
    <3>1. <<>> \o <<yes>> = <<yes>>
      OBVIOUS
    <3> QED
      BY <3>1, <2>1, <1>10
  <2>3. ASSUME NEW in \in Inputs PROVE Consistent(yes, in) <=> Consistent(Current, in)
    <3>1. CASE v \in Constants
      BY <3>1, <1>6, <1>9 DEF Consistent
    <3>2. CASE v \notin Constants
      BY <3>2, <1>9, <1>10 DEF Consistent, IsTrue, Constants
    <3> QED
      BY <3>1, <3>2
  <2> HIDE DEF sides
  <2>4. Explores(<<yes>>)
    BY <1>1, <1>4, <1>7, <1>9, <2>2, <2>3, OneSuccessor
  <2> QED
    BY <2>2, <2>4
<1>11. ASSUME IsFalse(Current, v) PROVE Explores(sides)
  <2>1. ~IsTrue(Current, v)
    BY <1>4, <1>5, <1>11 DEF IsTrue, IsFalse
  <2>2. sides = <<no>>
    <3>1. <<no>> \o <<>> = <<no>>
      OBVIOUS
    <3> QED
      BY <3>1, <2>1, <1>11
  <2>3. ASSUME NEW in \in Inputs PROVE Consistent(no, in) <=> Consistent(Current, in)
    <3>1. CASE v \in Constants
      BY <3>1, <1>6, <1>8 DEF Consistent
    <3>2. CASE v \notin Constants
      BY <3>2, <1>8, <1>5, <1>11 DEF Consistent, IsFalse, Constants
    <3> QED
      BY <3>1, <3>2
  <2> HIDE DEF sides
  <2>4. Explores(<<no>>)
    BY <1>1, <1>4, <1>7, <1>8, <2>2, <2>3, OneSuccessor
  <2> QED
    BY <2>2, <2>4
<1>12. ASSUME ~IsTrue(Current, v), ~IsFalse(Current, v) PROVE Explores(sides)
  <2> DEFINE successors == <<no, yes>>
  <2>1. sides = successors
    <3>1. <<no>> \o <<yes>> = <<no, yes>>
      BY PairConcat
    <3> QED
      BY <3>1, <1>12
  <2>2. /\ successors \in Seq({no, yes}) /\ Len(successors) = 2 /\ successors # <<>>
        /\ successors[1] = no /\ successors[2] = yes
    OBVIOUS
  <2> HIDE DEF successors, sides
  <2>3. 1 .. Len(successors) = {1, 2}
    BY <2>2
  <2>4. GoodSuccessors(successors)
    BY <2>2, <2>3, <1>8, <1>9 DEF GoodSuccessors
  <2>5. v \notin Constants /\ v \notin DOMAIN Current.known /\ v \in 2 .. MaxVal - 1
    BY <1>4, <1>5, <1>12 DEF IsTrue, IsFalse, Constants
  <2>6. ASSUME NEW in \in Inputs
        PROVE  /\ in[v] \in BOOLEAN
               /\ Consistent(no, in) <=> Consistent(Current, in) /\ FALSE = in[v]
               /\ Consistent(yes, in) <=> Consistent(Current, in) /\ TRUE = in[v]
    BY <2>5, <1>8, <1>9 DEF Inputs
  <2>7. ShareRuns(successors)
    BY <2>2, <2>3, <2>6 DEF ShareRuns
  <2>8. Explores(successors)
    BY <1>1, <1>4, <1>7, <2>1, <2>2, <2>4, <2>7, InsertStep
  <2> QED
    BY <2>1, <2>8
<1>13. Explores(sides)
  BY <1>10, <1>11, <1>12
<1> HIDE DEF sides
<1> QED
  BY <1>7, <1>13

\* Entering a function: s is the successor of c in the callee.
LEMMA PushOK ==
    ASSUME NEW c, NEW n \in Nat, NEW nodes, StateOK(c, n, nodes),
           NEW s, IsState(s), s.new \in BOOLEAN, s.locals = c.locals,
           s.known = c.known, s.stack = c.stack,
           NEW target, NEW retNode, c.stack = <<>> => retNode \in nodes,
           NEW t, t = StackPush(s, target, retNode)
    PROVE  /\ StateOK(t, n, nodes)
           /\ t.pred = s.pred /\ t.new = s.new /\ t.known = s.known
<1> DEFINE frame == [locals |-> s.locals, target |-> target, retNode |-> retNode]
           stack == Append(s.stack, frame)
           empty == <<>>
<1>1. t = [s EXCEPT !.stack = stack, !.locals = empty]
  BY DEF StackPush
<1>2. frame.locals = c.locals /\ frame.retNode = retNode
  OBVIOUS
<1>3. DOMAIN empty = {}
  OBVIOUS
<1> HIDE DEF frame, stack, empty
<1>4. /\ IsState(t) /\ t.locals = empty /\ t.stack = stack /\ t.known = s.known
      /\ t.pred = s.pred /\ t.new = s.new
  BY <1>1 DEF IsState
<1>5. c.stack \in Seq(ToSet(c.stack)) /\ Len(c.stack) \in Nat /\ DOMAIN c.stack = 1 .. Len(c.stack)
  BY LenProperties DEF StateOK
<1> DEFINE S == ToSet(c.stack) \cup {frame}
<1>6. /\ stack \in Seq(S) /\ Len(stack) = Len(c.stack) + 1
      /\ \A i \in 1 .. Len(c.stack) : stack[i] = c.stack[i]
      /\ stack[Len(c.stack) + 1] = frame
  <2>1. c.stack \in Seq(S) /\ frame \in S
    <3>1. ToSet(c.stack) \subseteq S /\ frame \in S
      OBVIOUS
    <3> HIDE DEF S
    <3> QED
      BY <3>1, <1>5, SeqMonotonic
  <2> HIDE DEF S
  <2> QED
    BY <2>1, AppendProperties DEF stack
<1> HIDE DEF S
<1>7. stack \in Seq(ToSet(stack)) /\ DOMAIN stack = 1 .. Len(c.stack) + 1
  BY <1>5, <1>6, SeqToSet, LenProperties
<1>8. ASSUME NEW i \in DOMAIN stack PROVE ValuesBelow(stack[i].locals, n)
  <2>1. CASE i = Len(c.stack) + 1
    BY <2>1, <1>2, <1>6 DEF StateOK
  <2>2. CASE i \in 1 .. Len(c.stack)
    BY <2>2, <1>5, <1>6 DEF StateOK
  <2> QED
    BY <2>1, <2>2, <1>5, <1>7
<1>9. stack # <<>> /\ stack[1].retNode \in nodes
  <2>1. stack # <<>>
    BY <1>5, <1>6
  <2>2. CASE c.stack = <<>>
    <3>1. Len(c.stack) + 1 = 1
      BY <2>2
    <3> QED
      BY <3>1, <2>1, <2>2, <1>2, <1>6
  <2>3. CASE c.stack # <<>>
    <3>1. 1 \in 1 .. Len(c.stack)
      BY <2>3, <1>5, EmptySeq
    <3> QED
      BY <3>1, <2>3, <1>6 DEF StateOK
  <2> QED
    BY <2>1, <2>2, <2>3
<1>10. ValuesBelow(t.locals, n)
  BY <1>3, <1>4 DEF ValuesBelow
<1> QED
  BY <1>4, <1>7, <1>8, <1>9, <1>10 DEF StateOK

\* What StackPop does before it assigns the returned value.
Popped(s) == [s EXCEPT !.stack = Front(@), !.locals = Last(s.stack).locals]

\* Leaving a function: s is the successor of c in the caller.
LEMMA PopOK ==
    ASSUME NEW c, NEW n \in Nat, NEW nodes, StateOK(c, n, nodes), c.stack # <<>>,
           NEW s, IsState(s), s.new \in BOOLEAN, s.node = Last(c.stack).retNode,
           s.known = c.known, s.stack = c.stack,
           NEW t, t = Popped(s)
    PROVE  /\ StateOK(t, n, nodes)
           /\ t.pred = s.pred /\ t.new = s.new /\ t.known = s.known
<1> DEFINE stack == Front(s.stack)
           locals == Last(s.stack).locals
           last == Len(c.stack)
<1>1. t = [s EXCEPT !.stack = stack, !.locals = locals]
  BY DEF Popped
<1>2. c.stack \in Seq(ToSet(c.stack)) /\ last \in Nat \ {0} /\ DOMAIN c.stack = 1 .. last
  BY LenProperties, EmptySeq DEF StateOK
<1>3. locals = c.stack[last].locals /\ s.node = c.stack[last].retNode
  BY DEF Last
<1>4. /\ stack \in Seq(ToSet(c.stack)) /\ Len(stack) = last - 1
      /\ \A i \in 1 .. last - 1 : stack[i] = c.stack[i]
  <2>1. stack = SubSeq(c.stack, 1, last - 1)
    BY DEF Front
  <2>2. 1 \in 1 .. last + 1 /\ last - 1 \in 1 - 1 .. last
    BY <1>2
  <2> HIDE DEF stack, last
  <2>3. \A i \in 1 .. last - 1 : 1 + i - 1 = i
    BY <1>2
  <2> QED
    BY <1>2, <2>1, <2>2, <2>3, SubSeqProperties DEF last
<1> HIDE DEF stack, locals
<1>5. /\ IsState(t) /\ t.locals = locals /\ t.stack = stack /\ t.known = s.known
      /\ t.pred = s.pred /\ t.new = s.new /\ t.node = s.node
  BY <1>1 DEF IsState
<1>6. stack \in Seq(ToSet(stack)) /\ DOMAIN stack = 1 .. last - 1
  BY <1>4, SeqToSet, LenProperties
<1>7. 1 .. last - 1 \subseteq 1 .. last /\ last \in 1 .. last
  BY <1>2
<1>8. /\ \A i \in DOMAIN stack : ValuesBelow(stack[i].locals, n)
      /\ ValuesBelow(locals, n)
  BY <1>2, <1>3, <1>4, <1>6, <1>7 DEF StateOK
<1>9. IF stack = <<>> THEN t.node \in nodes ELSE stack[1].retNode \in nodes
  <2>1. c.stack[1].retNode \in nodes
    BY DEF StateOK
  <2>2. CASE stack = <<>>
    <3>1. last = 1
      BY <2>2, <1>2, <1>4
    <3> QED
      BY <3>1, <2>1, <2>2, <1>3, <1>5
  <2>3. CASE stack # <<>>
    <3>1. 1 \in 1 .. last - 1
      BY <2>3, <1>2, <1>4, EmptySeq
    <3> QED
      BY <3>1, <2>1, <2>3, <1>4
  <2> QED
    BY <2>2, <2>3
<1> HIDE DEF last
<1> QED
  BY <1>5, <1>6, <1>8, <1>9 DEF StateOK

\* What the current state becomes in the function, and in its caller.
Entered ==
    LET func == funcMapping[GetValue(Current, Instr.callee)]
        callee == StackPush(CreateSuccessor(Id, func.cfg), Instr.target, Instr.next)
    IN  IF func.param = "none" THEN callee
        ELSE AssignValue(callee, func.param, GetValue(Current, Instr.arg))

Left == StackPop(CreateSuccessor(Id, Last(Current.stack).retNode), Instr.arg)

LEMMA CallStep ==
    ASSUME EngineInv, Call
    PROVE  Explores(<< Entered >>)
<1> DEFINE func == funcMapping[GetValue(Current, Instr.callee)]
           c == Current
           s == CreateSuccessor(Id, func.cfg)
           pushed == StackPush(s, Instr.target, Instr.next)
           arg == GetValue(c, Instr.arg)
           t == IF func.param = "none" THEN pushed
                ELSE AssignValue(pushed, func.param, arg)
           n == nextVal
           nodes == EntryNodes
<1>1. PoolInv /\ Iterates /\ Current.new /\ ~AtTerminal(Current)
  BY DEF EngineInv, Call, Executes
<1>2. nextVal' = n /\ nextVal' \in n .. MaxVal /\ n \in Nat
  BY <1>1, NextValNat DEF Call
<1>3. StateOK(c, n, nodes)
  BY <1>1, PoolFacts
<1>4. /\ IsState(s) /\ s.pred = Id /\ s.new = TRUE
      /\ s.locals = c.locals /\ s.known = c.known /\ s.stack = c.stack
  BY <1>1, SuccessorFields
<1>5. c.stack = <<>> => Instr.next \in nodes
  BY <1>1, EntryInstr
<1>6. func.param # "none" => arg \in 0 .. n - 1
  <2>1. func.param # "none" => HasValue(Current, Instr.arg)
    BY DEF Call, Executes, OperandMissing, NeedsOperand
  <2> QED
    BY <2>1, <1>1, ValueBelow
<1>7. InsertAndEnqueue(<<t>>) /\ t = Entered
  BY DEF Call, Entered
<1> HIDE DEF c, s, n, nodes, func, arg
<1>8. StateOK(pushed, n, nodes) /\ pushed.pred = Id /\ pushed.new = TRUE /\ pushed.known = c.known
  <2> DEFINE target == Instr.target
             retNode == Instr.next
  <2>1. pushed = StackPush(s, target, retNode) /\ s.new \in BOOLEAN
    BY <1>4
  <2> HIDE DEF pushed, target
  <2>2. c.stack = <<>> => retNode \in nodes
    BY <1>5
  <2> HIDE DEF retNode
  <2>3. /\ StateOK(pushed, n, nodes)
        /\ pushed.pred = s.pred /\ pushed.new = s.new /\ pushed.known = s.known
    BY ONLY <1>2, <1>3, <1>4, <2>1, <2>2, PushOK
  <2> QED
    BY <2>3, <1>4
<1> HIDE DEF pushed
<1>9. StateOK(t, n, nodes) /\ t.pred = Id /\ t.new = TRUE /\ t.known = c.known
  <2>1. CASE func.param = "none"
    BY <2>1, <1>8
  <2>2. CASE func.param # "none"
    <3>1. t = AssignValue(pushed, func.param, arg) /\ n <= n
      BY <2>2, <1>2
    <3> DEFINE reg == func.param
    <3> HIDE DEF t, reg
    <3>2. t = AssignValue(pushed, reg, arg) /\ arg \in 0 .. n - 1
      BY <3>1, <2>2, <1>6 DEF reg
    <3>3. StateOK(t, n, nodes) /\ t.pred = pushed.pred /\ t.new = pushed.new
          /\ t.known = pushed.known
      BY ONLY <3>1, <3>2, <1>2, <1>8, AssignOK
    <3> QED
      BY <3>3, <1>8
  <2> QED
    BY <2>1, <2>2
<1> HIDE DEF t
<1>10. /\ StateOK(t, nextVal', EntryNodes) /\ t.pred = Id /\ t.new
       /\ \A in : Consistent(t, in) <=> Consistent(Current, in)
  BY <1>2, <1>9 DEF Consistent, n, nodes, c
<1>11. nextVal' \in nextVal .. MaxVal
  BY <1>2 DEF n
<1>12. Explores(<<t>>)
  BY <1>1, <1>7, <1>10, <1>11, OneSuccessor
<1> QED
  BY <1>7, <1>12

LEMMA RetStep ==
    ASSUME EngineInv, Ret
    PROVE  Explores(<< Left >>)
<1> DEFINE c == Current
           frame == Last(c.stack)
           s == CreateSuccessor(Id, frame.retNode)
           popped == Popped(s)
           value == GetValue(s, Instr.arg)
           t == IF Instr.arg = "none" THEN popped
                ELSE AssignValue(popped, Last(s.stack).target, value)
           n == nextVal
           nodes == EntryNodes
<1>1. PoolInv /\ Iterates /\ Current.new /\ ~AtTerminal(Current)
  BY DEF EngineInv, Ret, Executes
<1>2. nextVal' = n /\ nextVal' \in n .. MaxVal /\ n \in Nat
  BY <1>1, NextValNat DEF Ret
<1>3. StateOK(c, n, nodes) /\ c.stack # <<>>
  BY <1>1, PoolFacts, EntryInstr DEF Ret, Executes
<1>4. /\ IsState(s) /\ s.pred = Id /\ s.new = TRUE /\ s.node = frame.retNode
      /\ s.locals = c.locals /\ s.known = c.known /\ s.stack = c.stack
  BY <1>1, SuccessorFields
<1>5. Instr.arg # "none" => value \in 0 .. n - 1
  <2>1. Instr.arg # "none" => HasValue(Current, Instr.arg)
    BY DEF Ret, Executes, OperandMissing, NeedsOperand
  <2>2. value = GetValue(c, Instr.arg)
    BY <1>4 DEF GetValue
  <2> QED
    BY <2>1, <2>2, <1>1, ValueBelow
<1>6. InsertAndEnqueue(<<t>>) /\ t = Left
  BY DEF Ret, StackPop, Popped, Left
<1> HIDE DEF c, s, n, nodes, value
<1>7. StateOK(popped, n, nodes) /\ popped.pred = Id /\ popped.new = TRUE /\ popped.known = c.known
  <2>1. s.new \in BOOLEAN /\ s.node = Last(c.stack).retNode /\ popped = Popped(s)
    BY <1>4
  <2> HIDE DEF popped, frame
  <2>2. /\ StateOK(popped, n, nodes)
        /\ popped.pred = s.pred /\ popped.new = s.new /\ popped.known = s.known
    BY ONLY <1>2, <1>3, <1>4, <2>1, PopOK
  <2> QED
    BY <2>2, <1>4
<1> HIDE DEF popped
<1>8. StateOK(t, n, nodes) /\ t.pred = Id /\ t.new = TRUE /\ t.known = c.known
  <2>1. CASE Instr.arg = "none"
    BY <2>1, <1>7
  <2>2. CASE Instr.arg # "none"
    <3> DEFINE reg == Last(s.stack).target
    <3>1. t = AssignValue(popped, reg, value) /\ n <= n /\ value \in 0 .. n - 1
      BY <2>2, <1>2, <1>5
    <3> HIDE DEF t, reg
    <3>2. StateOK(t, n, nodes) /\ t.pred = popped.pred /\ t.new = popped.new
          /\ t.known = popped.known
      BY ONLY <3>1, <1>2, <1>7, AssignOK
    <3> QED
      BY <3>2, <1>7
  <2> QED
    BY <2>1, <2>2
<1> HIDE DEF t
<1>9. /\ StateOK(t, nextVal', EntryNodes) /\ t.pred = Id /\ t.new
      /\ \A in : Consistent(t, in) <=> Consistent(Current, in)
  BY <1>2, <1>8 DEF Consistent, n, nodes, c
<1>10. nextVal' \in nextVal .. MaxVal
  BY <1>2 DEF n
<1>11. Explores(<<t>>)
  BY <1>1, <1>6, <1>9, <1>10, OneSuccessor
<1> QED
  BY <1>6, <1>11

\* The actions that leave the pool as it is: what is taken from the worklist
\* has reached the end of the program, or the analysis is over.
LEMMA TailStep ==
    ASSUME EngineInv, Iterates, worklist' = Tail(worklist),
           program' = program, pool' = pool, nextVal' = nextVal, crashed' \in BOOLEAN,
           AtTerminal(Current) \/ crashed'
    PROVE  EngineInv'
<1>1. PoolInv /\ NothingLost /\ DepthFirst /\ OnePathPerRun
  BY DEF EngineInv
<1>2. Enqueues(<<>>) /\ Len(<<>>) = 0
  BY <1>1, TailEnqueues
<1>3. Len(pool) \in Nat /\ Ids = 1 .. Len(pool) /\ Ids' = Ids
  BY <1>1, PoolFacts DEF Ids
<1>4. worklist' \in Seq(Ids')
  BY <1>2, <1>3 DEF Enqueues
<1>5. PoolInv'
  BY <1>1, <1>3, <1>4 DEF PoolInv, EntryNodes
<1>6. NothingLost'
  <2>1. /\ IsInjective(worklist')
        /\ \A id \in ToSet(worklist) : id # Id => id \in ToSet(worklist')
        /\ \A id \in ToSet(worklist') : id \in ToSet(worklist)
    BY <1>1, <1>2, WaitingAfter
  <2>2. ASSUME ~crashed', NEW id \in Ids, pool[id].new
        PROVE  id \in ToSet(worklist') \/ pool[id].node \notin DOMAIN program.code
    <3>1. id \in ToSet(worklist) \/ pool[id].node \notin DOMAIN program.code
      BY <1>1, <2>2 DEF NothingLost, Iterates, AtTerminal
    <3>2. id = Id => pool[id].node \notin DOMAIN program.code
      BY <2>2 DEF AtTerminal, Current
    <3> QED
      BY <3>1, <3>2, <2>1
  <2> QED
    BY <1>1, <1>3, <2>1, <2>2 DEF NothingLost, AtTerminal
<1>7. DepthFirst'
  <2>1. \A id \in Ids : pool'[id].pred = pool[id].pred
    OBVIOUS
  <2>2. Len(pool') = Len(pool) + Len(<<>>) /\ Len(<<>>) \in Nat
        /\ \A i \in 1 .. Len(<<>>) : pool'[Len(pool) + i].pred = Id
    BY <1>2, <1>3
  <2> QED
    BY <1>1, <1>2, <1>5, <2>1, <2>2, StepDepthFirst
<1>8. OnePathPerRun'
  <2>1. Inputs' = Inputs
    BY DEF Inputs, funcMapping
  <2>2. \A in : Reached(in)' = Reached(in)
    BY <1>3 DEF Reached, Consistent
  <2> QED
    BY <1>1, <2>1, <2>2 DEF OnePathPerRun
<1> QED
  BY <1>5, <1>6, <1>7, <1>8 DEF EngineInv

LEMMA CrashOnOperandStep ==
    ASSUME EngineInv, CrashOnOperand
    PROVE  Explores(<<>>)
<1>1. PoolInv /\ Iterates /\ Current.new
  BY DEF EngineInv, CrashOnOperand
<1>2. Enqueues(<<>>)
  BY <1>1, TailEnqueues DEF CrashOnOperand
<1> DEFINE states == SetExplored(pool, Id)
<1>3. Extends(<<>>)
  <2>1. states \o <<>> = states
    <3>1. pool \in Seq(ToSet(pool)) /\ Id \in 1 .. Len(pool) /\ Len(pool) \in Nat
      BY <1>1, PoolFacts DEF PoolInv
    <3> DEFINE marked == [pool[Id] EXCEPT !.new = FALSE]
               S == ToSet(pool) \cup {marked}
    <3>2. states = [pool EXCEPT ![Id] = marked]
      BY <3>1, LenProperties DEF SetExplored
    <3>3. ToSet(pool) \subseteq S /\ marked \in S
      OBVIOUS
    <3> HIDE DEF S, marked, states
    <3>4. pool \in Seq(S)
      BY <3>1, <3>3, SeqMonotonic
    <3>5. states \in Seq(S)
      BY <3>1, <3>2, <3>3, <3>4, ExceptSeq
    <3> QED
      BY <3>5, ConcatEmptySeq
  <2>2. pool' = states \o <<>>
    BY <2>1 DEF CrashOnOperand
  <2> QED
    BY <1>1, <2>2, NoSuccessor, InsertExtends
<1>4. program' = program /\ nextVal' \in nextVal .. MaxVal /\ crashed' \in BOOLEAN
  BY <1>1, NextValNat DEF CrashOnOperand
<1> QED
  BY <1>1, <1>2, <1>3, <1>4, NoSuccessor DEF Explores

\* How the engine starts on a program, whoever made it.
Starts ==
    /\ WellFormed(program)
    /\ pool = << FirstState(program.entry) >>
    /\ worklist = <<1>>
    /\ nextVal = program.nextVal
    /\ crashed = FALSE

LEMMA EngineStarts ==
    ASSUME Starts
    PROVE  EngineInv
<1> DEFINE first == FirstState(program.entry)
           empty == <<>>
<1>1. /\ pool = <<first>> /\ worklist = <<1>>
      /\ nextVal = program.nextVal /\ crashed = FALSE
  BY DEF Starts
<1>2. /\ WellFormed(program) /\ MaxVal \in Nat
  BY LoopBoundsAssumption DEF Starts
<1>3. nextVal \in program.nextVal .. MaxVal
  BY <1>1, <1>2 DEF WellFormed, WellFormedEntry, WellFormedNames
<1>4. /\ IsState(first) /\ first.node = program.entry /\ first.new = TRUE
      /\ first.locals = empty /\ first.known = empty /\ first.stack = empty
      /\ first.pred = 0
  BY DEF FirstState, IsState
<1>5. DOMAIN empty = {} /\ empty \in Seq(ToSet(empty))
  OBVIOUS
<1>6. StateOK(first, nextVal, EntryNodes)
  <2> HIDE DEF first, empty
  <2>1. first.stack = <<>> /\ first.node \in EntryNodes
    BY <1>4 DEF EntryNodes, empty
  <2> QED
    BY <1>4, <1>5, <2>1 DEF StateOK, ValuesBelow
<1>7. /\ Len(pool) = 1 /\ Ids = {1} /\ pool[1] = first /\ pool \in Seq({first})
      /\ worklist \in Seq({1}) /\ Len(worklist) = 1 /\ worklist[1] = 1
      /\ DOMAIN worklist = {1}
  <2> HIDE DEF first
  <2>1. 1 .. 1 = {1}
    OBVIOUS
  <2> QED
    BY <1>1, <2>1 DEF Ids
<1> HIDE DEF first, empty
<1>8. PoolInv
  <2>1. pool \in Seq(ToSet(pool))
    BY <1>7, SeqToSet
  <2>2. crashed \in BOOLEAN /\ worklist \in Seq(Ids)
    BY <1>1, <1>7
  <2>3. ASSUME NEW id \in Ids
        PROVE  /\ StateOK(pool[id], nextVal, EntryNodes)
               /\ pool[id].pred = 0 /\ pool[id].pred \in 0 .. id - 1
    BY <1>4, <1>6, <1>7
  <2> QED
    BY <1>2, <1>3, <2>1, <2>2, <2>3 DEF PoolInv
<1>9. NothingLost
  <2>1. ToSet(worklist) = {1} /\ IsInjective(worklist)
    BY <1>7 DEF ToSet, IsInjective
  <2> QED
    BY <1>4, <1>7, <2>1 DEF NothingLost
<1>10. DepthFirst
  BY <1>7 DEF DepthFirst
<1>11. OnePathPerRun
  <2> SUFFICES ASSUME NEW in \in Inputs PROVE Cardinality(Reached(in)) = 1
    BY DEF OnePathPerRun
  <2>1. Consistent(first, in)
    BY <1>4, <1>5 DEF Consistent
  <2>2. Reached(in) = {1}
    BY <1>4, <1>7, <2>1 DEF Reached
  <2> QED
    BY <2>2, FS_Singleton
<1> QED
  BY <1>8, <1>9, <1>10, <1>11 DEF EngineInv

LEMMA InitStarts ==
    ASSUME Init
    PROVE  Starts
BY ProgramsAssumption DEF Init, Starts

LEMMA EngineNext ==
    ASSUME EngineInv, [Next]_vars
    PROVE  EngineInv'
<1>1. CASE ExecuteTerminal
  <2>1. /\ Iterates /\ worklist' = Tail(worklist) /\ AtTerminal(Current)
        /\ program' = program /\ pool' = pool /\ nextVal' = nextVal
        /\ crashed' \in BOOLEAN
    BY <1>1 DEF ExecuteTerminal, EngineInv, PoolInv
  <2> QED
    BY <2>1, TailStep
<1>2. CASE Crash
  <2>1. /\ Iterates /\ worklist' = Tail(worklist) /\ crashed'
        /\ program' = program /\ pool' = pool /\ nextVal' = nextVal
        /\ crashed' \in BOOLEAN
    BY <1>2 DEF Crash, Executes
  <2> QED
    BY <2>1, TailStep
<1>3. CASE UNCHANGED vars
  <2>1. /\ program' = program /\ pool' = pool /\ worklist' = worklist
        /\ nextVal' = nextVal /\ crashed' = crashed
    BY <1>3 DEF vars
  <2>2. Ids' = Ids /\ Path' = Path /\ Inputs' = Inputs
    BY <2>1, PathIsPaths, PathPrime DEF Ids, Inputs, funcMapping
  <2>3. \A in : Reached(in)' = Reached(in)
    BY <2>1, <2>2 DEF Reached, Consistent
  <2>4. PoolInv'
    BY <2>1, <2>2 DEF EngineInv, PoolInv, EntryNodes
  <2>5. NothingLost'
    BY <2>1, <2>2 DEF EngineInv, NothingLost, AtTerminal
  <2>6. DepthFirst'
    BY <2>1, <2>2 DEF EngineInv, DepthFirst
  <2>7. OnePathPerRun'
    BY <2>2, <2>3 DEF EngineInv, OnePathPerRun
  <2> QED
    BY <2>4, <2>5, <2>6, <2>7 DEF EngineInv
<1> QED
  BY <1>1, <1>2, <1>3, NoopStep, CreateUnknownStep, CastStep, AbortStep, BranchStep,
     CallStep, RetStep, CrashOnOperandStep, EngineStep DEF Next

\* The invariant of the engine, whatever programs it analyses.
THEOREM EngineInvariant == Spec => []EngineInv
<1>1. Init => EngineInv
  BY InitStarts, EngineStarts
<1>2. EngineInv /\ [Next]_vars => EngineInv'
  BY EngineNext
<1> QED
  BY <1>1, <1>2, PTL DEF Spec

(***************************************************************************)
(* The results.                                                            *)
(***************************************************************************)

\* Ids and values stay in range in every pool that VerificationLoop builds,
\* and a state is explored before its successors enter the pool.
THEOREM EngineTypeCorrect == Spec => []TypeOK
<1>1. EngineInv => TypeOK
  <2> SUFFICES ASSUME EngineInv PROVE TypeOK
    OBVIOUS
  <2> QED
    BY DEF EngineInv, PoolInv, TypeOK, StateOK, ValuesBelow
<1> QED
  BY <1>1, EngineInvariant, PTL

\* Whichever way the loop body is left, through an error of the analysis too,
\* the states still to be explored are exactly those that wait, once each.
THEOREM NothingLostCorrect == Spec => []NothingLost
<1>1. EngineInv => NothingLost
  BY DEF EngineInv
<1> QED
  BY <1>1, EngineInvariant, PTL

\* The worklist makes the exploration depth first, for all programs.
THEOREM DepthFirstCorrect == Spec => []DepthFirst
<1>1. EngineInv => DepthFirst
  BY DEF EngineInv
<1> QED
  BY <1>1, EngineInvariant, PTL

\* However the program branches, calls, returns and fails, each of its runs is
\* followed by exactly one path of states.
THEOREM OnePathCorrect == Spec => []OnePathPerRun
<1>1. EngineInv => OnePathPerRun
  BY DEF EngineInv
<1> QED
  BY <1>1, EngineInvariant, PTL

(***************************************************************************)
(* The exploration follows every run of every program.                     *)
(***************************************************************************)

FollowInv == EngineInv /\ input \in Inputs

(***************************************************************************)
(* The path that stands for the run.                                       *)
(***************************************************************************)

LEMMA LeafFacts ==
    ASSUME FollowInv
    PROVE  \E r \in Ids : Reached(input) = {r} /\ Leaf = pool[r] /\ Consistent(Leaf, input)
<1>1. PoolInv /\ OnePathPerRun /\ Len(pool) \in Nat
  BY LenProperties DEF FollowInv, EngineInv, PoolInv
<1>2. PICK r \in Ids : Reached(input) = {r} /\ Consistent(pool[r], input)
  BY <1>1, ReachedOne DEF FollowInv
<1> QED
  BY <1>2 DEF Leaf

SameStep(s, t) == t.node = s.node /\ t.locals = s.locals /\ t.stack = s.stack

\* An iteration either executes another state, or moves the path on to a
\* successor, or ends it.
LEMMA LeafMoves ==
    ASSUME FollowInv, NEW successors, Explores(successors), UNCHANGED input
    PROVE  \/ SameStep(Leaf, Leaf') /\ Leaf'.new = Leaf.new
           \/ /\ Leaf = Current /\ Consistent(Current, input)
              /\ \E i \in 1 .. Len(successors) :
                    Leaf' = successors[i] /\ Consistent(successors[i], input)
           \/ /\ Leaf = Current /\ successors = <<>>
              /\ SameStep(Leaf, Leaf') /\ Leaf'.new = FALSE
<1>1. PICK r \in Ids : Reached(input) = {r} /\ Leaf = pool[r] /\ Consistent(Leaf, input)
  BY LeafFacts
<1>2. PoolInv /\ Iterates /\ Current.new /\ Len(successors) \in Nat
      /\ GoodSuccessors(successors) /\ Extends(successors) /\ ShareRuns(successors)
  BY DEF FollowInv, EngineInv, Explores, GoodSuccessors
<1>3. PICK in \in Inputs : in = input
  BY DEF FollowInv
<1>4. Reached(in) = {r} /\ Reached(input)' = Reached(in)'
  BY <1>1, <1>3 DEF Reached, Consistent
<1>5. Len(pool) \in Nat /\ Id \in Ids /\ r \in Ids
  BY <1>1, <1>2, PoolFacts
<1>6. IF successors # <<>> /\ Consistent(Current, in)
      THEN /\ r = Id
           /\ \E i \in 1 .. Len(successors) :
                 /\ Consistent(successors[i], in)
                 /\ Reached(in)' = {Len(pool) + i}
      ELSE Reached(in)' = {r}
  <2>1. Reached(in) = {r} /\ in \in Inputs
    BY <1>4
  <2> QED
    BY <1>2, <2>1, InsertReached
<1>7. CASE successors # <<>> /\ Consistent(Current, in)
  <2>1. r = Id
    BY <1>6, <1>7
  <2>2. PICK i \in 1 .. Len(successors) :
              Consistent(successors[i], in) /\ Reached(in)' = {Len(pool) + i}
    BY <1>6, <1>7
  <2>3. Leaf' = pool'[Len(pool) + i]
    BY <1>4, <2>2 DEF Leaf
  <2>4. Leaf' = successors[i]
    BY <1>2, <2>3 DEF Extends
  <2> QED
    BY <1>1, <1>3, <1>7, <2>1, <2>2, <2>4 DEF Current
<1>8. CASE ~(successors # <<>> /\ Consistent(Current, in))
  <2>1. Reached(in)' = {r}
    BY <1>8, <1>6
  <2>2. Leaf' = pool'[r]
    BY <1>4, <2>1 DEF Leaf
  <2>3. SameStep(Leaf, Leaf') /\ Leaf'.new = (r # Id /\ Leaf.new)
    BY <1>1, <1>2, <1>5, <2>2 DEF SameStep, Extends
  <2>4. CASE r = Id
    <3>1. Leaf = Current /\ Consistent(Current, in)
      BY <1>1, <1>3, <2>4 DEF Current
    <3> QED
      BY <1>8, <2>3, <2>4, <3>1
  <2>5. CASE r # Id
    <3>1. pool[r].new \in BOOLEAN
      BY <1>2, <1>5 DEF PoolInv, StateOK
    <3> QED
      BY <2>3, <2>5, <3>1, <1>1
  <2> QED
    BY <2>4, <2>5
<1> QED
  BY <1>7, <1>8

(***************************************************************************)
(* Values.                                                                 *)
(***************************************************************************)

LEMMA ConcreteValues ==
    ASSUME FollowInv
    PROVE  /\ \A v \in DOMAIN funcMapping :
                 /\ Concrete(v) = NameOf(v) /\ NameOf(v) \in FunctionNames
                 /\ globalMapping[NameOf(v)] = v
           /\ \A v : v \notin DOMAIN funcMapping =>
                 Concrete(v) = IF v = 1 \/ (v # 0 /\ input[v]) THEN "true" ELSE "false"
           /\ \A f \in FunctionNames : Concrete(globalMapping[f]) = f
           /\ FunctionNames \cap {"true", "false", "null", "argc", "string", "undefined"} = {}
           /\ \A v : Concrete(v) # "undefined"
<1>1. WellFormed(program)
  BY NextValNat DEF FollowInv, EngineInv
<1>2. /\ program.nextVal \in Nat
      /\ FunctionNames = FunctionsIn(program)
      /\ DOMAIN funcMapping \subseteq 2 .. program.nextVal - 1
      /\ \A v \in DOMAIN funcMapping : \E f \in FunctionNames : globalMapping[f] = v
      /\ \A f, g \in FunctionNames : globalMapping[f] = globalMapping[g] => f = g
      /\ FunctionNames \cap {"true", "false", "null", "argc", "string", "undefined"} = {}
      /\ \A f \in FunctionNames : globalMapping[f] \in DOMAIN funcMapping
  <2>1. DOMAIN ConstantId = {"true", "false", "null"}
    BY DEF ConstantId
  <2> QED
    BY <1>1, <2>1 DEF WellFormed, WellFormedNames, WellFormedFunctions, FunctionsIn, FunctionNames,
       globalMapping, funcMapping, Unnamed
<1>3. 0 \notin DOMAIN funcMapping /\ 1 \notin DOMAIN funcMapping
  BY <1>2
<1>4. ASSUME NEW v \in DOMAIN funcMapping
      PROVE  /\ Concrete(v) = NameOf(v) /\ NameOf(v) \in FunctionNames
             /\ globalMapping[NameOf(v)] = v
  <2>1. Concrete(v) = NameOf(v)
    BY <1>3 DEF Concrete
  <2>2. NameOf(v) \in FunctionNames /\ globalMapping[NameOf(v)] = v
    BY <1>2 DEF NameOf
  <2> QED
    BY <2>1, <2>2
<1>5. ASSUME NEW v, v \notin DOMAIN funcMapping
      PROVE  Concrete(v) = IF v = 1 \/ (v # 0 /\ input[v]) THEN "true" ELSE "false"
  BY <1>3, <1>5 DEF Concrete
<1>6. ASSUME NEW f \in FunctionNames PROVE Concrete(globalMapping[f]) = f
  BY <1>2, <1>4
<1>7. ASSUME NEW v PROVE Concrete(v) # "undefined"
  <2>1. CASE v \in DOMAIN funcMapping
    BY <2>1, <1>2, <1>4
  <2>2. CASE v \notin DOMAIN funcMapping
    BY <2>2, <1>5
  <2> QED
    BY <2>1, <2>2
<1> QED
  BY <1>2, <1>4, <1>5, <1>6, <1>7

\* The operand that the engine looks up is the value in the run.
LEMMA OperandValue ==
    ASSUME FollowInv, NEW reg,
           reg \in {"true", "false", "null"} => reg \in DOMAIN globalMapping
    PROVE  Run!Value(reg) = IF HasValue(Leaf, reg) THEN Concrete(GetValue(Leaf, reg))
                            ELSE "undefined"
<1>1. WellFormed(program)
  BY NextValNat DEF FollowInv, EngineInv
<1>2. DOMAIN ConstantId = {"true", "false", "null"}
      /\ ConstantId["true"] = 1 /\ ConstantId["false"] = 0 /\ ConstantId["null"] = 0
  BY DEF ConstantId
<1>3. /\ \A name \in DOMAIN globalMapping :
            name \in {"true", "false", "null", "argc", "string"} \cup FunctionNames
      /\ "true" \in DOMAIN globalMapping => globalMapping["true"] = 1
      /\ "false" \in DOMAIN globalMapping => globalMapping["false"] = 0
      /\ "null" \in DOMAIN globalMapping => globalMapping["null"] = 0
      /\ FunctionNames \subseteq DOMAIN globalMapping
      /\ 0 \notin DOMAIN funcMapping /\ 1 \notin DOMAIN funcMapping
  <2>1. program.nextVal \in Nat /\ DOMAIN funcMapping \subseteq 2 .. program.nextVal - 1
    BY <1>1, NextValNat DEF WellFormed, WellFormedFunctions, funcMapping, FollowInv, EngineInv
  <2>2. 0 \notin DOMAIN funcMapping /\ 1 \notin DOMAIN funcMapping
    BY <2>1
  <2> QED
    BY <1>1, <1>2, <2>2 DEF WellFormed, WellFormedNames, FunctionsIn, FunctionNames,
       globalMapping, funcMapping, Unnamed
<1>4. /\ DOMAIN Environment = DOMAIN globalMapping \cap {"argc", "string"}
      /\ \A g \in DOMAIN Environment : Environment[g] = Concrete(globalMapping[g])
      /\ DOMAIN RunProgram.functions = FunctionNames
      /\ DOMAIN LeafRegs = DOMAIN Leaf.locals
      /\ \A r \in DOMAIN Leaf.locals : LeafRegs[r] = Concrete(Leaf.locals[r])
  BY DEF Environment, RunProgram, LeafRegs, Registers
<1>5. FunctionNames \cap {"true", "false", "null", "argc", "string", "undefined"} = {}
      /\ \A f \in FunctionNames : Concrete(globalMapping[f]) = f
  BY ConcreteValues
<1>6. Concrete(1) = "true" /\ Concrete(0) = "false"
  BY <1>3, ConcreteValues
<1>7. CASE reg \in DOMAIN globalMapping
  <2>1. HasValue(Leaf, reg) /\ GetValue(Leaf, reg) = globalMapping[reg]
    BY <1>7 DEF HasValue, GetValue
  <2>2. Run!Value(reg) = Concrete(globalMapping[reg])
    <3>1. CASE reg \in {"argc", "string"}
      BY <3>1, <1>7, <1>4 DEF Run!Value
    <3>2. CASE reg \in {"true", "false", "null"}
      BY <3>2, <1>7, <1>3, <1>4, <1>5, <1>6 DEF Run!Value
    <3>3. CASE reg \in FunctionNames
      <4>1. reg \notin DOMAIN Environment /\ reg \in DOMAIN RunProgram.functions
        BY <3>3, <1>4, <1>5
      <4> QED
        BY <4>1, <3>3, <1>5 DEF Run!Value
    <3> QED
      BY <3>1, <3>2, <3>3, <1>3, <1>7
  <2> QED
    BY <2>1, <2>2
<1>8. CASE reg \notin DOMAIN globalMapping
  <2>1. /\ reg \notin DOMAIN Environment /\ reg \notin {"true", "false", "null"}
        /\ reg \notin DOMAIN RunProgram.functions
    BY <1>8, <1>3, <1>4
  <2>2. Run!Value(reg) = IF reg \in DOMAIN LeafRegs THEN LeafRegs[reg] ELSE "undefined"
    BY <2>1 DEF Run!Value
  <2> QED
    BY <2>2, <1>4, <1>8 DEF HasValue, GetValue
<1> QED
  BY <1>7, <1>8

\* A register that is assigned to in a state is assigned to in the run.
LEMMA RegistersAssigned ==
    ASSUME NEW f, NEW reg, NEW v
    PROVE  Registers(LinkToValueId(f, reg, v)) = Run!Assigned(Registers(f), reg, Concrete(v))
<1> DEFINE g == LinkToValueId(f, reg, v)
<1>1. DOMAIN g = DOMAIN f \cup {reg}
      /\ \A r \in DOMAIN g : g[r] = IF r = reg THEN v ELSE f[r]
  BY DEF LinkToValueId
<1> HIDE DEF g
<1>2. DOMAIN Registers(f) = DOMAIN f /\ \A r \in DOMAIN f : Registers(f)[r] = Concrete(f[r])
  BY DEF Registers
<1>3. Registers(g) = [r \in DOMAIN f \cup {reg} |-> Concrete(g[r])]
  BY <1>1 DEF Registers
<1>4. Registers(g) = [r \in DOMAIN f \cup {reg} |->
                         IF r = reg THEN Concrete(v) ELSE Registers(f)[r]]
  BY <1>1, <1>2, <1>3
<1>5. Registers(g) = Run!Assigned(Registers(f), reg, Concrete(v))
  BY <1>2, <1>4 DEF Run!Assigned
<1> QED
  BY <1>5 DEF g

\* A step of the engine does not touch the program, so what a state stands for
\* after the step is what it would have stood for before.
LEMMA SameMeaning ==
    ASSUME program' = program, input' = input, NEW t, Leaf' = t
    PROVE  /\ RunProgram' = RunProgram /\ Environment' = Environment
           /\ LeafRegs' = Registers(t.locals)
           /\ LeafFrames' = Frames(t.stack)
           /\ LeafResult' = IF t.new THEN "running" ELSE "stopped"
<1>1. /\ globalMapping' = globalMapping /\ funcMapping' = funcMapping
      /\ FunctionNames' = FunctionNames
  BY DEF globalMapping, funcMapping, FunctionNames
<1>2. RunProgram' = RunProgram
  BY <1>1 DEF RunProgram
<1>3. Environment' = Environment
  BY <1>1 DEF Environment, Concrete, NameOf
<1>4. LeafRegs' = Registers(t.locals)
  BY <1>1 DEF LeafRegs, Registers, Concrete, NameOf
<1>5. LeafFrames' = Frames(t.stack)
  BY <1>1 DEF LeafFrames, Frames, Registers, Concrete, NameOf
<1>6. LeafResult' = IF t.new THEN "running" ELSE "stopped"
  BY DEF LeafResult
<1> QED
  BY <1>2, <1>3, <1>4, <1>5, <1>6

(***************************************************************************)
(* The steps.                                                              *)
(***************************************************************************)

\* Which instructions an operation executes.
LEMMA OperatesOn ==
    ASSUME NEW instr
    PROVE  /\ Operates(instr) = "Noop" =>
                 \/ instr.opcode = "br" /\ instr.arg = "none"
                 \/ instr.opcode = "call" /\ instr.callee \in {"llvm.dbg", "__ANGIE_fin"}
           /\ Operates(instr) = "CreateUnknownVal" =>
                 instr.opcode = "call" /\ instr.callee = "__ANGIE_CREATE_UNKNOWN_"
           /\ Operates(instr) = "Abort" =>
                 instr.opcode = "call" /\ instr.callee \in {"abort", "exit"}
           /\ Operates(instr) = "Cast" <=> instr.opcode \in Casts
           /\ Operates(instr) = "Br" <=> instr.opcode = "br" /\ instr.arg # "none"
           /\ Operates(instr) = "Ret" <=> instr.opcode = "ret"
           /\ Operates(instr) = "Call" => instr.opcode = "call"
<1> DEFINE op == instr.opcode
           method == MethodFor(instr)
<1>1. /\ op = "call" => method = MethodForCall(instr.callee)
      /\ op = "ret" => method = "Ret"
      /\ op = "br" => method = "Br"
      /\ op \in Casts => method = "Cast"
      /\ op \notin {"call", "ret", "br"} \cup Casts =>
            method \in {"Alloca", "Load", "Store", "GetElementPtr", "Invoke", "Cmp", "BinOp",
                       "NotSupportedInstr"}
  BY DEF MethodFor, Casts, Predicates, BinaryOps, FloatOps
<1>2. LET m == MethodForCall(instr.callee)
      IN  /\ m = "Noop" <=> instr.callee = "llvm.dbg"
          /\ m = "Terminate" <=> instr.callee = "__ANGIE_fin"
          /\ m = "CreateUnknownVal" <=> instr.callee = "__ANGIE_CREATE_UNKNOWN_"
          /\ m = "Abort" <=> instr.callee = "abort"
          /\ m = "Exit" <=> instr.callee = "exit"
          /\ m \notin {"Cast", "Ret", "Br", "Invoke"}
  BY DEF MethodForCall
<1>3. "call" \notin Casts /\ "ret" \notin Casts /\ "br" \notin Casts
  BY DEF Casts
<1>4. OperationFor(instr) =
          IF method = "Terminate" THEN "Noop"
          ELSE IF method = "Exit" THEN "Abort"
          ELSE IF method = "Invoke" THEN "NotSupportedInstr" ELSE method
  BY DEF OperationFor, Operation
<1> HIDE DEF method
<1>5. CASE op = "call"
  BY <1>1, <1>2, <1>3, <1>4, <1>5 DEF Operates
<1>6. CASE op # "call"
  <2>1. method \in {"Ret", "Br", "Cast", "Alloca", "Load", "Store", "GetElementPtr", "Invoke",
                    "Cmp", "BinOp", "NotSupportedInstr"}
        /\ (method = "Ret" <=> op = "ret") /\ (method = "Br" <=> op = "br")
        /\ (method = "Cast" <=> op \in Casts)
    BY <1>1, <1>3, <1>6
  <2> QED
    BY <2>1, <1>3, <1>4, <1>6 DEF Operates
<1> QED
  BY <1>5, <1>6

\* The instruction that is executed on the path.
AtInstr == FollowInv /\ Iterates /\ Leaf = Current /\ Current.new /\ ~AtTerminal(Current)

LEMMA LeafInstr ==
    ASSUME AtInstr
    PROVE  /\ Run!Instr = Instr /\ Leaf.node \in DOMAIN RunProgram.code
           /\ LeafResult = "running"
           /\ Instr.arg \in {"true", "false", "null"} => Instr.arg \in DOMAIN globalMapping
           /\ Instr.opcode = "call" => Instr.callee \notin {"true", "false", "null"}
           /\ Operates(Instr) = "Cast" => Instr.opcode \in {"zext", "bitcast"}
<1>1. WellFormed(program)
  BY NextValNat DEF AtInstr, FollowInv, EngineInv
<1>2. Current.node \in DOMAIN program.code /\ Instr = program.code[Current.node]
      /\ RunProgram.code = program.code
  BY DEF AtInstr, AtTerminal, Instr, RunProgram
<1>3. DOMAIN ConstantId = {"true", "false", "null"}
  BY DEF ConstantId
<1> QED
  BY <1>1, <1>2, <1>3 DEF AtInstr, LeafResult, Run!Instr, WellFormed, WellFormedNames, globalMapping

LEMMA LeafValue ==
    ASSUME AtInstr
    PROVE  Run!Value(Instr.arg) =
               IF HasValue(Current, Instr.arg) THEN Concrete(GetValue(Current, Instr.arg))
               ELSE "undefined"
BY LeafInstr, OperandValue DEF AtInstr

LEMMA LeafCallee ==
    ASSUME AtInstr, Instr.opcode = "call"
    PROVE  /\ DOMAIN RunProgram.functions = FunctionNames
           /\ Run!Callee \in FunctionNames <=> IsKnownFunction
           /\ IsKnownFunction =>
                 RunProgram.functions[Run!Callee] = funcMapping[GetValue(Current, Instr.callee)]
<1> DEFINE callee == Instr.callee
           v == GetValue(Current, callee)
<1>1. FollowInv /\ Leaf = Current /\ callee \notin {"true", "false", "null"}
  BY LeafInstr DEF AtInstr
<1>2. Run!Callee = IF HasValue(Current, callee) THEN Concrete(v) ELSE "undefined"
  BY <1>1, OperandValue, LeafInstr DEF Run!Callee
<1>3. IsKnownFunction <=> HasValue(Current, callee) /\ v \in DOMAIN funcMapping
  BY DEF IsKnownFunction
<1> HIDE DEF v, callee
<1>4. DOMAIN RunProgram.functions = FunctionNames
      /\ \A f \in FunctionNames : RunProgram.functions[f] = funcMapping[globalMapping[f]]
  BY DEF RunProgram
<1>5. "undefined" \notin FunctionNames /\ "true" \notin FunctionNames /\ "false" \notin FunctionNames
  BY <1>1, ConcreteValues
<1>6. Concrete(v) \in FunctionNames <=> v \in DOMAIN funcMapping
  BY <1>1, <1>5, ConcreteValues
<1>7. v \in DOMAIN funcMapping =>
          Concrete(v) \in FunctionNames /\ globalMapping[Concrete(v)] = v
  BY <1>1, ConcreteValues
<1> QED
  BY <1>2, <1>3, <1>4, <1>5, <1>6, <1>7 DEF v, callee

\* An operand misses its value exactly where the run uses what is undefined.
LEMMA LeafUndefined ==
    ASSUME AtInstr
    PROVE  /\ OperandMissing => Run!UsesUndefined
           /\ Operates(Instr) \in {"Cast", "Br", "Ret", "Call"} /\ ~OperandMissing
                 => ~Run!UsesUndefined
<1>1. Run!Instr = Instr
  BY LeafInstr
<1>2. Run!Value(Instr.arg) = "undefined" <=> ~HasValue(Current, Instr.arg)
  BY LeafValue, ConcreteValues DEF AtInstr
<1>3. /\ Operates(Instr) = "Br" <=> Instr.opcode = "br" /\ Instr.arg # "none"
      /\ Operates(Instr) = "Ret" <=> Instr.opcode = "ret"
      /\ Operates(Instr) = "Call" => Instr.opcode = "call"
      /\ Operates(Instr) = "Cast" <=> Instr.opcode \in Casts
      /\ Operates(Instr) = "Cast" => Instr.opcode \in {"zext", "bitcast"}
      /\ {"zext", "bitcast"} \subseteq Casts
      /\ "call" \notin Casts /\ "ret" \notin Casts /\ "br" \notin Casts
  BY OperatesOn, LeafInstr DEF Casts
<1>4. CASE Instr.opcode = "call"
  <2>1. NeedsOperand <=> /\ Operates(Instr) = "Call" /\ IsKnownFunction
                         /\ funcMapping[GetValue(Current, Instr.callee)].param # "none"
    BY <1>3, <1>4 DEF NeedsOperand
  <2>2. Run!UsesUndefined <=> /\ Run!Callee \in FunctionNames
                              /\ RunProgram.functions[Run!Callee].param # "none"
                              /\ ~HasValue(Current, Instr.arg)
    BY <1>1, <1>2, <1>4, LeafCallee DEF Run!UsesUndefined
  <2>3. Operates(Instr) \in {"Cast", "Br", "Ret", "Call"} => Operates(Instr) = "Call"
    BY <1>3, <1>4
  <2>4. IsKnownFunction <=> Run!Callee \in FunctionNames
    BY <1>4, LeafCallee
  <2>5. IsKnownFunction => funcMapping[GetValue(Current, Instr.callee)]
                           = RunProgram.functions[Run!Callee]
    BY <1>4, LeafCallee
  <2> QED
    BY <2>1, <2>2, <2>3, <2>4, <2>5 DEF OperandMissing
<1>5. CASE Instr.opcode # "call"
  <2>1. NeedsOperand <=> \/ Instr.opcode \in {"zext", "bitcast"}
                         \/ Instr.opcode \in {"br", "ret"} /\ Instr.arg # "none"
    BY <1>3, <1>5 DEF NeedsOperand
  <2>2. Run!UsesUndefined <=> /\ \/ Instr.opcode \in {"zext", "bitcast"}
                                 \/ Instr.opcode \in {"br", "ret"} /\ Instr.arg # "none"
                              /\ ~HasValue(Current, Instr.arg)
    BY <1>1, <1>2, <1>5 DEF Run!UsesUndefined
  <2> QED
    BY <2>1, <2>2 DEF OperandMissing
<1> QED
  BY <1>4, <1>5

LEMMA FollowNoop ==
    ASSUME AtInstr, Noop, program' = program, input' = input,
           Leaf' = CreateSuccessor(Id, Instr.next)
    PROVE  Run!Next
<1> DEFINE t == CreateSuccessor(Id, Instr.next)
<1>1. t.node = Instr.next /\ t.locals = Leaf.locals /\ t.stack = Leaf.stack /\ t.new
  BY SuccessorFields DEF AtInstr, FollowInv, EngineInv
<1> HIDE DEF t
<1>2. PICK u : u = t
  OBVIOUS
<1>3. Leaf' = u
  BY <1>2 DEF t
<1>4. /\ RunProgram' = RunProgram /\ Environment' = Environment
      /\ LeafRegs' = LeafRegs /\ LeafFrames' = LeafFrames /\ LeafResult' = "running"
      /\ Leaf'.node = Instr.next
  BY <1>1, <1>2, <1>3, SameMeaning DEF LeafRegs, LeafFrames
<1>5. \/ Instr.opcode = "br" /\ Instr.arg = "none"
      \/ Instr.opcode = "call" /\ Instr.callee \in {"llvm.dbg", "__ANGIE_fin"}
  BY OperatesOn DEF Noop, Executes
<1>6. Run!Jump
  BY <1>4, <1>5, LeafInstr DEF Run!Jump, Run!Goto, Run!CallOf
<1> QED
  BY <1>6, LeafInstr DEF Run!Next

\* A step that assigns to a register.
LEMMA AssignedMeaning ==
    ASSUME AtInstr, program' = program, input' = input, NEW v,
           Leaf' = AssignValue(CreateSuccessor(Id, Instr.next), Instr.target, v)
    PROVE  /\ RunProgram' = RunProgram /\ Environment' = Environment
           /\ LeafRegs' = Run!Assigned(LeafRegs, Instr.target, Concrete(v))
           /\ LeafFrames' = LeafFrames /\ LeafResult' = "running"
           /\ Leaf'.node = Instr.next
<1> DEFINE s == CreateSuccessor(Id, Instr.next)
           reg == Instr.target
           f == LinkToValueId(s.locals, reg, v)
<1>1. /\ IsState(s) /\ s.node = Instr.next /\ s.locals = Leaf.locals
      /\ s.stack = Leaf.stack /\ s.new = TRUE
  BY SuccessorFields DEF AtInstr, FollowInv, EngineInv
<1>2. Leaf' = [s EXCEPT !.locals = f]
  BY DEF AssignValue
<1>3. Registers(f) = Run!Assigned(Registers(Leaf.locals), reg, Concrete(v))
  BY <1>1, RegistersAssigned
<1> HIDE DEF s, f
<1>4. PICK t : t = [s EXCEPT !.locals = f]
  OBVIOUS
<1>5. t.node = Instr.next /\ t.locals = f /\ t.stack = Leaf.stack /\ t.new
  BY <1>1, <1>4 DEF IsState
<1>6. Leaf' = t
  BY <1>2, <1>4
<1> QED
  BY <1>3, <1>5, <1>6, SameMeaning DEF LeafRegs, LeafFrames

LEMMA FollowUnknown ==
    ASSUME AtInstr, CreateUnknown, program' = program, input' = input,
           Leaf' = AssignValue(CreateSuccessor(Id, Instr.next), Instr.target, nextVal)
    PROVE  Run!Next
<1>1. Instr.opcode = "call" /\ Instr.callee = "__ANGIE_CREATE_UNKNOWN_"
  BY OperatesOn DEF CreateUnknown, Executes
<1>2. nextVal \notin DOMAIN funcMapping
  <2>1. /\ program.nextVal \in Nat /\ nextVal \in Nat /\ program.nextVal <= nextVal
        /\ WellFormed(program)
    BY NextValNat DEF AtInstr, FollowInv, EngineInv
  <2>2. DOMAIN funcMapping \subseteq 2 .. program.nextVal - 1
    BY <2>1 DEF WellFormed, WellFormedFunctions, funcMapping
  <2> QED
    BY <2>1, <2>2
<1>3. Concrete(nextVal) \in Run!Truths
  BY <1>2, ConcreteValues DEF AtInstr, Run!Truths
<1>4. Run!Unknown
  BY <1>1, <1>3, LeafInstr, AssignedMeaning DEF Run!Unknown, Run!Goto, Run!CallOf
<1> QED
  BY <1>4, LeafInstr DEF Run!Next

LEMMA FollowCast ==
    ASSUME AtInstr, Cast, program' = program, input' = input,
           Leaf' = AssignValue(CreateSuccessor(Id, Instr.next), Instr.target,
                               GetValue(Current, Instr.arg))
    PROVE  Run!Next
<1>1. Operates(Instr) = "Cast" /\ ~OperandMissing
  BY DEF Cast, Executes
<1>2. Instr.opcode \in {"zext", "bitcast"} /\ ~Run!UsesUndefined
  BY <1>1, LeafInstr, LeafUndefined
<1>3. HasValue(Current, Instr.arg)
  BY <1>1 DEF OperandMissing, NeedsOperand
<1>4. Run!Copy
  BY <1>2, <1>3, LeafInstr, LeafValue, AssignedMeaning DEF Run!Copy, Run!Goto
<1> QED
  BY <1>4, LeafInstr DEF Run!Next

LEMMA FollowStop ==
    ASSUME AtInstr, program' = program, input' = input,
           Operates(Instr) = "Abort" \/ OperandMissing,
           SameStep(Leaf, Leaf'), Leaf'.new = FALSE
    PROVE  Run!Next
<1>1. PICK t : t = Leaf'
  OBVIOUS
<1>2. /\ RunProgram' = RunProgram /\ Environment' = Environment
      /\ LeafRegs' = LeafRegs /\ LeafFrames' = LeafFrames /\ LeafResult' = "stopped"
      /\ Leaf'.node = Leaf.node
  BY <1>1, SameMeaning DEF LeafRegs, LeafFrames, SameStep
<1>3. \/ Instr.opcode = "call" /\ Instr.callee \in {"abort", "exit"}
      \/ Run!UsesUndefined
  BY OperatesOn, LeafUndefined
<1>4. Run!Stop
  BY <1>2, <1>3, LeafInstr DEF Run!Stop, Run!CallOf
<1> QED
  BY <1>4, LeafInstr DEF Run!Next

\* The sides of a branch that are left, one after the other.
LEMMA SidesAre ==
    ASSUME NEW no, NEW yes, NEW x, NEW y, x \in {<<>>, <<no>>}, y \in {<<>>, <<yes>>},
           NEW sides, sides = x \o y, NEW i, i \in 1 .. Len(sides)
    PROVE  (x = <<no>> /\ sides[i] = no) \/ (y = <<yes>> /\ sides[i] = yes)
<1>1. CASE x = <<>> /\ y = <<>>
  <2>1. sides = <<>>
    BY <1>1
  <2> QED
    BY <2>1
<1>2. CASE x = <<>> /\ y = <<yes>>
  <2>1. sides = <<yes>>
    BY <1>2
  <2> QED
    BY <1>2, <2>1
<1>3. CASE x = <<no>> /\ y = <<>>
  <2>1. sides = <<no>>
    BY <1>3
  <2> QED
    BY <1>3, <2>1
<1>4. CASE x = <<no>> /\ y = <<yes>>
  <2>1. sides = <<no, yes>>
    BY <1>4, PairConcat
  <2> QED
    BY <1>4, <2>1
<1> QED
  BY <1>1, <1>2, <1>3, <1>4

\* Of the sides of a branch the one is consistent that the run takes.
LEMMA BranchTaken ==
    ASSUME AtInstr, Branch, NEW i \in 1 .. Len(BranchSides(GetValue(Current, Instr.arg))),
           NEW t, t = BranchSides(GetValue(Current, Instr.arg))[i], Consistent(t, input)
    PROVE  /\ t.node = IF Concrete(GetValue(Current, Instr.arg)) = "false"
                       THEN Instr.nextFalse ELSE Instr.next
           /\ t.locals = Leaf.locals /\ t.stack = Leaf.stack /\ t.new
<1> DEFINE v == GetValue(Current, Instr.arg)
           toNo == CreateSuccessor(Id, Instr.nextFalse)
           toYes == CreateSuccessor(Id, Instr.next)
<1>1. PoolInv /\ Iterates /\ Leaf = Current /\ input \in Inputs
  BY DEF AtInstr, FollowInv, EngineInv
<1>2. v \in 0 .. nextVal - 1 /\ nextVal \in Nat /\ MaxVal \in Nat /\ nextVal <= MaxVal
  <2>1. HasValue(Current, Instr.arg)
    BY DEF Branch, Executes, OperandMissing, NeedsOperand
  <2> QED
    BY <1>1, <2>1, ValueBelow, NextValNat
<1>3. /\ IsState(toNo) /\ toNo.node = Instr.nextFalse /\ toNo.new = TRUE
      /\ toNo.locals = Leaf.locals /\ toNo.stack = Leaf.stack
      /\ IsState(toYes) /\ toYes.node = Instr.next /\ toYes.new = TRUE
      /\ toYes.locals = Leaf.locals /\ toYes.stack = Leaf.stack
  BY <1>1, SuccessorFields
<1>4. \/ ~IsTrue(Current, v) /\ t = Assume(toNo, v, FALSE)
      \/ ~IsFalse(Current, v) /\ t = Assume(toYes, v, TRUE)
  <2> DEFINE no == Assume(toNo, v, FALSE)
             yes == Assume(toYes, v, TRUE)
             x == IF IsTrue(Current, v) THEN <<>> ELSE <<no>>
             y == IF IsFalse(Current, v) THEN <<>> ELSE <<yes>>
             sides == BranchSides(v)
  <2>1. sides = x \o y /\ i \in 1 .. Len(sides) /\ t = sides[i]
    BY DEF BranchSides
  <2> HIDE DEF no, yes
  <2>2. x \in {<<>>, <<no>>} /\ y \in {<<>>, <<yes>>}
    OBVIOUS
  <2>3. (x = <<no>> => ~IsTrue(Current, v)) /\ (y = <<yes>> => ~IsFalse(Current, v))
    <3>1. <<no>> # <<>> /\ <<yes>> # <<>>
      OBVIOUS
    <3> QED
      BY <3>1
  <2> HIDE DEF x, y, sides
  <2>4. (x = <<no>> /\ sides[i] = no) \/ (y = <<yes>> /\ sides[i] = yes)
    BY ONLY <2>1, <2>2, SidesAre
  <2> QED
    BY <2>1, <2>3, <2>4 DEF no, yes
<1> HIDE DEF v, toNo, toYes
<1>5. v \in DOMAIN funcMapping => v \in 2 .. MaxVal - 1 /\ input[v] = TRUE
  <2>1. program.nextVal \in Nat /\ DOMAIN funcMapping \subseteq 2 .. program.nextVal - 1
        /\ program.nextVal <= MaxVal
    BY <1>1, NextValNat DEF WellFormed, WellFormedFunctions, funcMapping
  <2>2. /\ DOMAIN input = 2 .. MaxVal - 1
        /\ \A w \in DOMAIN input : w \in DOMAIN funcMapping => input[w]
        /\ \A w \in DOMAIN input : input[w] \in BOOLEAN
    BY <1>1 DEF Inputs
  <2>3. v \in DOMAIN funcMapping => v \in 2 .. MaxVal - 1
    BY <1>2, <2>1
  <2> QED
    BY <2>2, <2>3
<1>6. ASSUME NEW s, IsState(s), NEW b, t = Assume(s, v, b)
      PROVE  /\ t.node = s.node /\ t.locals = s.locals /\ t.stack = s.stack /\ t.new = s.new
             /\ v \notin {0, 1} => b = input[v]
  <2>1. CASE v \in {0, 1}
    BY <2>1, <1>6 DEF Assume, Constants
  <2>2. CASE v \notin {0, 1}
    <3> DEFINE f == LinkToValueId(s.known, v, b)
    <3>1. t = [s EXCEPT !.known = f]
      BY <2>2, <1>6 DEF Assume, Constants
    <3>2. v \in DOMAIN f /\ f[v] = b
      BY DEF LinkToValueId
    <3> HIDE DEF f
    <3>3. /\ t.known = f /\ t.node = s.node /\ t.locals = s.locals /\ t.stack = s.stack
          /\ t.new = s.new
      BY <3>1, <1>6 DEF IsState
    <3> QED
      BY <2>2, <3>2, <3>3 DEF Consistent
  <2> QED
    BY <2>1, <2>2
<1>7. Concrete(v) = "false" <=> v \notin DOMAIN funcMapping /\ (v = 0 \/ (v # 1 /\ ~input[v]))
  <2>1. FollowInv
    BY DEF AtInstr
  <2>2. CASE v \in DOMAIN funcMapping
    <3>1. Concrete(v) \in FunctionNames /\ "false" \notin FunctionNames
      BY <2>1, <2>2, ConcreteValues
    <3> QED
      BY <3>1, <2>2
  <2>3. CASE v \notin DOMAIN funcMapping
    <3>1. Concrete(v) = IF v = 1 \/ (v # 0 /\ input[v]) THEN "true" ELSE "false"
      BY <2>1, <2>3, ConcreteValues
    <3>2. 0 # 1
      OBVIOUS
    <3> QED
      BY <3>1, <3>2, <2>3
  <2> QED
    BY <2>2, <2>3
<1>8. CASE ~IsTrue(Current, v) /\ t = Assume(toNo, v, FALSE)
  <2>1. v # 1 /\ (v # 0 => input[v] = FALSE)
    BY <1>3, <1>6, <1>8 DEF IsTrue
  <2>2. v = 0 => v \notin DOMAIN funcMapping
    BY <1>5
  <2>3. Concrete(v) = "false"
    BY <2>1, <2>2, <1>5, <1>7
  <2> QED
    BY <2>3, <1>3, <1>6, <1>8 DEF v
<1>9. CASE ~IsFalse(Current, v) /\ t = Assume(toYes, v, TRUE)
  <2>1. v # 0 /\ (v # 1 => input[v] = TRUE)
    BY <1>3, <1>6, <1>9 DEF IsFalse
  <2>2. Concrete(v) # "false"
    BY <2>1, <1>7
  <2> QED
    BY <2>2, <1>3, <1>6, <1>9 DEF v
<1> QED
  BY <1>4, <1>8, <1>9

LEMMA SomeSide ==
    ASSUME NEW no, NEW yes, NEW x, NEW y,
           \/ x = <<no>> /\ y = <<yes>>
           \/ x = <<no>> /\ y = <<>>
           \/ x = <<>> /\ y = <<yes>>
    PROVE  x \o y # <<>>
<1>1. <<no>> \o <<>> = <<no>> /\ <<>> \o <<yes>> = <<yes>>
  OBVIOUS
<1>2. <<no, yes>> # <<>> /\ <<no>> # <<>> /\ <<yes>> # <<>>
  OBVIOUS
<1> QED
  BY <1>1, <1>2, PairConcat

\* No branch is left without a side.
LEMMA SidesLeft ==
    ASSUME EngineInv, Branch
    PROVE  BranchSides(GetValue(Current, Instr.arg)) # <<>>
<1> DEFINE v == GetValue(Current, Instr.arg)
           no == Assume(CreateSuccessor(Id, Instr.nextFalse), v, FALSE)
           yes == Assume(CreateSuccessor(Id, Instr.next), v, TRUE)
           x == IF IsTrue(Current, v) THEN <<>> ELSE <<no>>
           y == IF IsFalse(Current, v) THEN <<>> ELSE <<yes>>
<1>1. /\ DOMAIN Current.known \subseteq 2 .. nextVal - 1 /\ nextVal \in Nat
      /\ \A r \in DOMAIN Current.known : Current.known[r] \in BOOLEAN
  BY PoolFacts, NextValNat DEF StateOK, EngineInv, Branch, Executes
<1>2. BranchSides(v) = x \o y
  BY DEF BranchSides
<1> HIDE DEF v, no, yes
<1>3. ~(IsTrue(Current, v) /\ IsFalse(Current, v))
  <2>1. v \in DOMAIN Current.known => v # 0 /\ v # 1
    BY <1>1
  <2> QED
    BY <1>1, <2>1 DEF IsTrue, IsFalse
<1>4. \/ x = <<no>> /\ y = <<yes>>
      \/ x = <<no>> /\ y = <<>>
      \/ x = <<>> /\ y = <<yes>>
  BY <1>3
<1> HIDE DEF x, y
<1>5. x \o y # <<>>
  BY ONLY <1>4, SomeSide
<1> QED
  BY <1>2, <1>5 DEF v

LEMMA FollowBranch ==
    ASSUME AtInstr, Branch, program' = program, input' = input,
           NEW i \in 1 .. Len(BranchSides(GetValue(Current, Instr.arg))),
           NEW t, t = BranchSides(GetValue(Current, Instr.arg))[i], Consistent(t, input),
           Leaf' = t
    PROVE  Run!Next
<1>1. /\ t.node = IF Concrete(GetValue(Current, Instr.arg)) = "false"
                  THEN Instr.nextFalse ELSE Instr.next
      /\ t.locals = Leaf.locals /\ t.stack = Leaf.stack /\ t.new
  BY BranchTaken
<1>2. /\ RunProgram' = RunProgram /\ Environment' = Environment
      /\ LeafRegs' = LeafRegs /\ LeafFrames' = LeafFrames /\ LeafResult' = "running"
      /\ Leaf'.node = t.node
  BY <1>1, SameMeaning DEF LeafRegs, LeafFrames
<1>3. Operates(Instr) = "Br" /\ ~OperandMissing
  BY DEF Branch, Executes
<1>4. Instr.opcode = "br" /\ Instr.arg # "none" /\ ~Run!UsesUndefined
  BY <1>3, OperatesOn, LeafUndefined
<1>5. Run!Value(Instr.arg) = Concrete(GetValue(Current, Instr.arg))
  BY <1>3, LeafValue DEF OperandMissing, NeedsOperand
<1>6. Run!Branch
  BY <1>1, <1>2, <1>4, <1>5, LeafInstr DEF Run!Branch, Run!Goto
<1> QED
  BY <1>6, LeafInstr DEF Run!Next

\* The suspended calls of a state and of the run.
FrameOf(call) ==
    [regs |-> Registers(call.locals), target |-> call.target, retNode |-> call.retNode]

LEMMA FramesSeq ==
    ASSUME NEW T, NEW stack \in Seq(T)
    PROVE  /\ Frames(stack) \in Seq({FrameOf(call) : call \in T})
           /\ Len(Frames(stack)) = Len(stack) /\ Len(stack) \in Nat
           /\ DOMAIN stack = 1 .. Len(stack)
           /\ \A i \in 1 .. Len(stack) : Frames(stack)[i] = FrameOf(stack[i])
<1>1. stack \in [1 .. Len(stack) -> T] /\ Len(stack) \in Nat /\ DOMAIN stack = 1 .. Len(stack)
  BY LenProperties
<1>2. Frames(stack) = [i \in 1 .. Len(stack) |-> FrameOf(stack[i])]
  BY <1>1 DEF Frames, FrameOf
<1> DEFINE S == {FrameOf(call) : call \in T}
           n == Len(stack)
           frames == Frames(stack)
<1>3. \A i \in 1 .. n : stack[i] \in T
  BY <1>1
<1>4. \A i \in 1 .. n : FrameOf(stack[i]) \in S
  BY <1>3
<1>5. frames \in [1 .. n -> S] /\ n \in Nat /\ \A i \in 1 .. n : frames[i] = FrameOf(stack[i])
  BY <1>1, <1>2, <1>4
<1> HIDE DEF S, n, frames
<1>6. frames \in Seq(S) /\ DOMAIN frames = 1 .. n
  BY <1>5, SeqDef
<1>7. Len(frames) = n
  BY <1>5, <1>6, LenProperties
<1> QED
  BY <1>1, <1>5, <1>6, <1>7 DEF S, n, frames

LEMMA FramesAppend ==
    ASSUME NEW T, NEW stack \in Seq(T), NEW call
    PROVE  Frames(Append(stack, call)) = Append(Frames(stack), FrameOf(call))
<1> DEFINE n == Len(stack)
           U == T \cup {call}
           S == {FrameOf(c) : c \in U}
           pushed == Append(stack, call)
           f == Frames(stack)
           g == Frames(pushed)
           h == Append(f, FrameOf(call))
<1>1. stack \in Seq(U) /\ call \in U
  BY SeqMonotonic
<1>2. FrameOf(call) \in S
  BY <1>1
<1> HIDE DEF U
<1>3. /\ pushed \in Seq(U) /\ Len(pushed) = n + 1
      /\ \A i \in 1 .. n : pushed[i] = stack[i]
      /\ pushed[n + 1] = call
  BY <1>1, AppendProperties
<1> HIDE DEF pushed
<1>4. /\ f \in Seq(S) /\ Len(f) = n /\ n \in Nat
      /\ \A i \in 1 .. n : f[i] = FrameOf(stack[i])
  BY <1>1, FramesSeq
<1>5. /\ g \in Seq(S) /\ Len(g) = n + 1
      /\ \A i \in 1 .. n + 1 : g[i] = FrameOf(pushed[i])
  BY <1>3, FramesSeq
<1> DEFINE last == FrameOf(call)
<1> HIDE DEF S, f, g, n, last
<1>6. /\ h \in Seq(S) /\ Len(h) = n + 1
      /\ \A i \in 1 .. n : h[i] = f[i]
      /\ h[n + 1] = last
  BY <1>2, <1>4, AppendProperties DEF last
<1> HIDE DEF h
<1>7. \A i \in 1 .. n + 1 : g[i] = h[i]
  <2> SUFFICES ASSUME NEW i \in 1 .. n + 1 PROVE g[i] = h[i]
    OBVIOUS
  <2>1. i \in 1 .. n \/ i = n + 1
    BY <1>4
  <2>2. CASE i \in 1 .. n
    BY <2>2, <1>3, <1>4, <1>5, <1>6
  <2>3. CASE i = n + 1
    BY <2>3, <1>3, <1>5, <1>6 DEF last
  <2> QED
    BY <2>1, <2>2, <2>3
<1>8. g = h
  BY <1>5, <1>6, <1>7, SeqEqual
<1> QED
  BY <1>8 DEF g, h, f, pushed, last

LEMMA FramesFront ==
    ASSUME NEW T, NEW stack \in Seq(T), stack # <<>>
    PROVE  /\ Frames(stack) # <<>>
           /\ Frames(stack)[Len(Frames(stack))] = FrameOf(Last(stack))
           /\ Frames(Front(stack)) = SubSeq(Frames(stack), 1, Len(Frames(stack)) - 1)
<1> DEFINE n == Len(stack)
           S == {FrameOf(c) : c \in T}
           popped == SubSeq(stack, 1, n - 1)
           f == Frames(stack)
           g == Frames(popped)
           h == SubSeq(f, 1, n - 1)
<1>1. /\ f \in Seq(S) /\ Len(f) = n /\ n \in Nat
      /\ \A i \in 1 .. n : f[i] = FrameOf(stack[i])
  BY FramesSeq
<1>2. n # 0
  BY EmptySeq
<1>3. Last(stack) = stack[n] /\ Front(stack) = popped
  BY DEF Last, Front
<1>4. 1 \in 1 .. n + 1 /\ n - 1 \in 1 - 1 .. n /\ n - 1 - 1 + 1 = n - 1 /\ n - 1 \in Nat
      /\ 1 .. n - 1 \subseteq 1 .. n /\ \A i \in 1 .. n - 1 : 1 + i - 1 = i
  BY <1>1, <1>2
<1>5. popped \in Seq(T) /\ Len(popped) = n - 1 /\ \A i \in 1 .. n - 1 : popped[i] = stack[i]
  <2> HIDE DEF n
  <2> QED
    BY <1>4, SubSeqProperties DEF n
<1> HIDE DEF popped
<1>6. /\ g \in Seq(S) /\ Len(g) = n - 1
      /\ \A i \in 1 .. n - 1 : g[i] = FrameOf(popped[i])
  BY <1>5, FramesSeq
<1> HIDE DEF f, g, n, S
<1>7. h \in Seq(S) /\ Len(h) = n - 1 /\ \A i \in 1 .. n - 1 : h[i] = f[i]
  BY <1>1, <1>4, SubSeqProperties
<1> HIDE DEF h
<1>8. \A i \in 1 .. n - 1 : g[i] = h[i]
  BY <1>1, <1>4, <1>5, <1>6, <1>7
<1>9. g = h
  BY <1>6, <1>7, <1>8, SeqEqual
<1>10. f # <<>> /\ f[n] = FrameOf(stack[n])
  <2>1. n \in 1 .. n
    BY <1>1, <1>2
  <2> QED
    BY <2>1, <1>1, <1>2, EmptySeq
<1> QED
  BY <1>1, <1>3, <1>9, <1>10 DEF f, g, h, popped

LEMMA FollowCall ==
    ASSUME AtInstr, Call, program' = program, input' = input, Leaf' = Entered
    PROVE  Run!Next
<1> DEFINE func == funcMapping[GetValue(Current, Instr.callee)]
           s == CreateSuccessor(Id, func.cfg)
           pushed == StackPush(s, Instr.target, Instr.next)
           v == GetValue(Current, Instr.arg)
           call == [locals |-> Leaf.locals, target |-> Instr.target, retNode |-> Instr.next]
           stack == Append(Leaf.stack, call)
           locals == IF func.param = "none" THEN <<>> ELSE LinkToValueId(<<>>, func.param, v)
<1>1. PoolInv /\ Iterates /\ Leaf = Current /\ Operates(Instr) = "Call" /\ IsKnownFunction
      /\ ~OperandMissing
  BY DEF AtInstr, FollowInv, EngineInv, Call, Executes
<1>2. Leaf.stack \in Seq(ToSet(Leaf.stack))
  BY <1>1, PoolFacts DEF StateOK
<1>3. /\ IsState(s) /\ s.node = func.cfg /\ s.locals = Leaf.locals
      /\ s.stack = Leaf.stack /\ s.new = TRUE
  BY <1>1, SuccessorFields
<1>4. Entered = IF func.param = "none" THEN pushed ELSE AssignValue(pushed, func.param, v)
  BY DEF Entered
<1>5. pushed = [s EXCEPT !.stack = stack, !.locals = <<>>]
  BY <1>3 DEF StackPush
<1> HIDE DEF s, v, call, stack
<1>6. IsState(pushed) /\ pushed.node = func.cfg /\ pushed.stack = stack /\ pushed.locals = <<>>
      /\ pushed.new = TRUE
  BY <1>3, <1>5 DEF IsState
<1> HIDE DEF func, pushed
<1>7. PICK t : t = Entered
  OBVIOUS
<1>8. t.node = func.cfg /\ t.stack = stack /\ t.locals = locals /\ t.new
  <2>1. CASE func.param = "none"
    BY <2>1, <1>4, <1>6, <1>7
  <2>2. CASE func.param # "none"
    <3> DEFINE f == LinkToValueId(<<>>, func.param, v)
    <3>1. t = [pushed EXCEPT !.locals = f] /\ locals = f
      BY <2>2, <1>4, <1>6, <1>7 DEF AssignValue
    <3> HIDE DEF f, locals
    <3> QED
      BY <3>1, <1>6 DEF IsState
  <2> QED
    BY <2>1, <2>2
<1>9. /\ RunProgram' = RunProgram /\ Environment' = Environment
      /\ LeafRegs' = Registers(locals) /\ LeafFrames' = Frames(stack) /\ LeafResult' = "running"
      /\ Leaf'.node = func.cfg
  <2>1. Leaf' = t
    BY <1>7
  <2> HIDE DEF locals
  <2> QED
    BY <1>8, <2>1, SameMeaning
<1>10. Instr.opcode = "call" /\ ~Run!UsesUndefined
  BY <1>1, OperatesOn, LeafUndefined
<1>11. Run!Callee \in DOMAIN RunProgram.functions /\ RunProgram.functions[Run!Callee] = func
  BY <1>1, <1>10, LeafCallee DEF func
<1>12. Registers(locals) = [r \in {func.param} \ {"none"} |-> Run!Value(Instr.arg)]
  <2>1. CASE func.param = "none"
    <3>1. DOMAIN <<>> = {} /\ {func.param} \ {"none"} = {}
      BY <2>1
    <3>2. locals = <<>>
      BY <2>1
    <3> QED
      BY <3>1, <3>2 DEF Registers
  <2>2. CASE func.param # "none"
    <3>1. HasValue(Current, Instr.arg)
      BY <1>1, <2>2 DEF OperandMissing, NeedsOperand, func
    <3>2. Run!Value(Instr.arg) = Concrete(v)
      BY <3>1, LeafValue DEF v
    <3>3. DOMAIN locals = {func.param} /\ locals[func.param] = v /\ {func.param} \ {"none"} = {func.param}
      BY <2>2 DEF LinkToValueId
    <3> HIDE DEF locals
    <3> QED
      BY <3>2, <3>3 DEF Registers
  <2> QED
    BY <2>1, <2>2
<1>13. Frames(stack) =
         Append(LeafFrames, [regs |-> LeafRegs, target |-> Instr.target, retNode |-> Instr.next])
  <2>1. Frames(stack) = Append(LeafFrames, FrameOf(call))
    BY <1>2, FramesAppend DEF stack, LeafFrames
  <2>2. FrameOf(call) = [regs |-> LeafRegs, target |-> Instr.target, retNode |-> Instr.next]
    BY DEF FrameOf, call, LeafRegs
  <2> QED
    BY <2>1, <2>2
<1> HIDE DEF locals
<1>14. Run!Call
  BY <1>9, <1>10, <1>11, <1>12, <1>13, LeafInstr DEF Run!Call, Run!Goto
<1> QED
  BY <1>14, LeafInstr DEF Run!Next

LEMMA FollowRet ==
    ASSUME AtInstr, Ret, program' = program, input' = input, Leaf' = Left
    PROVE  Run!Next
<1> DEFINE call == Last(Leaf.stack)
           s == CreateSuccessor(Id, call.retNode)
           popped == Popped(s)
           v == GetValue(Current, Instr.arg)
           stack == Front(Leaf.stack)
           locals == IF Instr.arg = "none" THEN call.locals
                     ELSE LinkToValueId(call.locals, call.target, v)
<1>1. PoolInv /\ Iterates /\ Leaf = Current /\ Operates(Instr) = "Ret" /\ ~OperandMissing
      /\ ~AtTerminal(Current)
  BY DEF AtInstr, FollowInv, EngineInv, Ret, Executes
<1>2. Leaf.stack \in Seq(ToSet(Leaf.stack)) /\ Leaf.stack # <<>>
  BY <1>1, PoolFacts, EntryInstr DEF StateOK
<1>3. /\ IsState(s) /\ s.node = call.retNode /\ s.locals = Leaf.locals
      /\ s.stack = Leaf.stack /\ s.new = TRUE
  BY <1>1, SuccessorFields
<1>4. Left = IF Instr.arg = "none" THEN popped ELSE AssignValue(popped, call.target, v)
  <2>1. GetValue(s, Instr.arg) = v
    BY <1>1, <1>3 DEF GetValue
  <2> QED
    BY <1>1, <1>3, <2>1 DEF Left, StackPop, Popped
<1>5. popped = [s EXCEPT !.stack = stack, !.locals = call.locals]
  BY <1>3 DEF Popped
<1> HIDE DEF s, v, stack, call
<1>6. IsState(popped) /\ popped.node = call.retNode /\ popped.stack = stack
      /\ popped.locals = call.locals /\ popped.new = TRUE
  BY <1>3, <1>5 DEF IsState
<1> HIDE DEF popped
<1>7. PICK t : t = Left
  OBVIOUS
<1>8. t.node = call.retNode /\ t.stack = stack /\ t.locals = locals /\ t.new
  <2>1. CASE Instr.arg = "none"
    BY <2>1, <1>4, <1>6, <1>7
  <2>2. CASE Instr.arg # "none"
    <3> DEFINE f == LinkToValueId(call.locals, call.target, v)
    <3>1. t = [popped EXCEPT !.locals = f] /\ locals = f
      BY <2>2, <1>4, <1>6, <1>7 DEF AssignValue
    <3> HIDE DEF f, locals
    <3> QED
      BY <3>1, <1>6 DEF IsState
  <2> QED
    BY <2>1, <2>2
<1>9. /\ RunProgram' = RunProgram /\ Environment' = Environment
      /\ LeafRegs' = Registers(locals) /\ LeafFrames' = Frames(stack) /\ LeafResult' = "running"
      /\ Leaf'.node = call.retNode
  <2>1. Leaf' = t
    BY <1>7
  <2> HIDE DEF locals
  <2> QED
    BY <1>8, <2>1, SameMeaning
<1>10. Instr.opcode = "ret" /\ ~Run!UsesUndefined
  BY <1>1, OperatesOn, LeafUndefined
<1>11. /\ LeafFrames # <<>> /\ LeafFrames[Len(LeafFrames)] = FrameOf(call)
       /\ Frames(stack) = SubSeq(LeafFrames, 1, Len(LeafFrames) - 1)
  BY <1>2, FramesFront DEF LeafFrames, call, stack
<1>12. /\ FrameOf(call).regs = Registers(call.locals) /\ FrameOf(call).target = call.target
       /\ FrameOf(call).retNode = call.retNode
  BY DEF FrameOf
<1>13. Registers(locals) = IF Instr.arg = "none" THEN FrameOf(call).regs
                           ELSE Run!Assigned(FrameOf(call).regs, FrameOf(call).target,
                                             Run!Value(Instr.arg))
  <2>1. CASE Instr.arg = "none"
    BY <2>1, <1>12
  <2>2. CASE Instr.arg # "none"
    <3>1. HasValue(Current, Instr.arg)
      BY <1>1, <2>2 DEF OperandMissing, NeedsOperand
    <3>2. Run!Value(Instr.arg) = Concrete(v)
      BY <3>1, LeafValue DEF v
    <3>3. locals = LinkToValueId(call.locals, call.target, v)
      BY <2>2
    <3> HIDE DEF locals
    <3> QED
      BY <3>2, <3>3, <2>2, <1>12, RegistersAssigned
  <2> QED
    BY <2>1, <2>2
<1> HIDE DEF locals
<1>14. Run!Ret
  BY <1>9, <1>10, <1>11, <1>12, <1>13, LeafInstr DEF Run!Ret, Run!Goto
<1> QED
  BY <1>14, LeafInstr DEF Run!Next

(***************************************************************************)
(* The refinement.                                                         *)
(***************************************************************************)

LEMMA SameLeaf ==
    ASSUME program' = program, input' = input,
           SameStep(Leaf, Leaf'), Leaf'.new = Leaf.new
    PROVE  UNCHANGED Run!run
<1>1. PICK t : t = Leaf'
  OBVIOUS
<1>2. /\ RunProgram' = RunProgram /\ Environment' = Environment
      /\ LeafRegs' = LeafRegs /\ LeafFrames' = LeafFrames /\ LeafResult' = LeafResult
      /\ Leaf'.node = Leaf.node
  BY <1>1, SameMeaning DEF LeafRegs, LeafFrames, LeafResult, SameStep
<1> QED
  BY <1>2 DEF Run!run

\* The pool is as it was, so is the path.
LEMMA SamePool ==
    ASSUME program' = program, input' = input, pool' = pool
    PROVE  UNCHANGED Run!run
<1>1. Leaf' = Leaf
  BY DEF Leaf, Reached, Consistent, Ids
<1> QED
  BY <1>1, SameLeaf DEF SameStep

\* An iteration that moves the path moves it from the current state to one of
\* its successors, or ends it there if it has none.
LEMMA FollowSome ==
    ASSUME FollowInv, NEW successors, successors # <<>>, Explores(successors),
           UNCHANGED input, ~AtTerminal(Current), ~UNCHANGED Run!run
    PROVE  /\ AtInstr
           /\ \E i \in 1 .. Len(successors) :
                 Leaf' = successors[i] /\ Consistent(successors[i], input)
<1>1. program' = program /\ Iterates /\ Current.new
  BY DEF Explores
<1>2. ~(SameStep(Leaf, Leaf') /\ Leaf'.new = Leaf.new)
  BY <1>1, SameLeaf
<1>3. /\ Leaf = Current
      /\ \E i \in 1 .. Len(successors) :
            Leaf' = successors[i] /\ Consistent(successors[i], input)
  BY <1>2, LeafMoves
<1> QED
  BY <1>1, <1>3 DEF AtInstr

LEMMA FollowOne ==
    ASSUME FollowInv, NEW t, Explores(<<t>>), UNCHANGED input, ~AtTerminal(Current),
           ~UNCHANGED Run!run
    PROVE  AtInstr /\ Leaf' = t
<1> DEFINE successors == <<t>>
<1>1. Len(successors) = 1 /\ successors[1] = t /\ successors # <<>> /\ 1 .. 1 = {1}
      /\ Explores(successors)
  OBVIOUS
<1> HIDE DEF successors
<1>2. AtInstr /\ \E i \in 1 .. Len(successors) : Leaf' = successors[i]
  BY <1>1, FollowSome
<1> QED
  BY <1>1, <1>2

LEMMA FollowNone ==
    ASSUME FollowInv, Explores(<<>>), UNCHANGED input, ~AtTerminal(Current),
           ~UNCHANGED Run!run
    PROVE  AtInstr /\ SameStep(Leaf, Leaf') /\ Leaf'.new = FALSE
<1>1. program' = program /\ Iterates /\ Current.new
  BY DEF Explores
<1>2. ~(SameStep(Leaf, Leaf') /\ Leaf'.new = Leaf.new)
  BY <1>1, SameLeaf
<1>3. 1 .. Len(<<>>) = {}
  OBVIOUS
<1>4. Leaf = Current /\ SameStep(Leaf, Leaf') /\ Leaf'.new = FALSE
  BY <1>2, <1>3, LeafMoves
<1> QED
  BY <1>1, <1>4 DEF AtInstr

LEMMA FollowStarts ==
    ASSUME Starts, input \in Inputs
    PROVE  FollowInv /\ Run!Init
<1> DEFINE first == FirstState(program.entry)
           empty == <<>>
<1>1. FollowInv
  BY EngineStarts DEF FollowInv
<1>2. pool = <<first>>
  BY DEF Starts
<1>3. /\ first.node = program.entry /\ first.locals = empty /\ first.stack = empty
      /\ first.new = TRUE
  BY DEF FirstState
<1> HIDE DEF first
<1>4. Leaf = first
  <2>1. Ids = {1} /\ pool[1] = first
    BY <1>2 DEF Ids
  <2> QED
    BY <1>1, <2>1, LeafFacts
<1>5. DOMAIN empty = {} /\ Registers(empty) = empty /\ Frames(empty) = empty
  BY DEF Registers, Frames
<1>6. LeafRegs = <<>> /\ LeafFrames = <<>> /\ LeafResult = "running"
  BY <1>3, <1>4, <1>5 DEF LeafRegs, LeafFrames, LeafResult
<1>7. Environment \in [DOMAIN Environment -> Run!Truths]
  <2>1. ASSUME NEW g \in DOMAIN globalMapping \cap {"argc", "string"}
        PROVE  Concrete(globalMapping[g]) \in Run!Truths
    <3>1. g \notin FunctionNames
      BY <1>1, ConcreteValues
    <3>2. globalMapping[g] \notin DOMAIN funcMapping
      BY <3>1 DEF FunctionNames
    <3> QED
      BY <1>1, <3>2, ConcreteValues DEF Run!Truths
  <2> QED
    BY <2>1 DEF Environment
<1>8. RunProgram.entry = program.entry
  BY DEF RunProgram
<1> QED
  BY <1>1, <1>3, <1>4, <1>6, <1>7, <1>8 DEF Run!Init

LEMMA FollowNext ==
    ASSUME FollowInv, [FNext]_<<vars, input>>
    PROVE  FollowInv' /\ [Run!Next]_Run!run
<1>1. [Next]_vars /\ input' = input
  BY DEF FNext
<1>2. EngineInv
  BY DEF FollowInv
<1>3. program' = program
  BY <1>1, <1>2, NoopStep, CreateUnknownStep, CastStep, AbortStep, BranchStep, CallStep, RetStep,
     CrashOnOperandStep DEF Next, vars, Explores, ExecuteTerminal, Crash
<1>4. FollowInv'
  <2>1. Inputs' = Inputs
    BY <1>3 DEF Inputs, funcMapping
  <2> QED
    BY <1>1, <1>2, <2>1, EngineNext DEF FollowInv
<1>5. ASSUME ~UNCHANGED Run!run PROVE Run!Next
  <2>1. pool' # pool
    BY <1>1, <1>3, <1>5, SamePool
  <2>2. CASE Noop
    <3>1. Explores(<< CreateSuccessor(Id, Instr.next) >>) /\ ~AtTerminal(Current)
      BY <1>2, <2>2, NoopStep DEF Noop, Executes
    <3> QED
      BY <1>1, <1>3, <1>5, <2>2, <3>1, FollowOne, FollowNoop
  <2>3. CASE CreateUnknown
    <3> DEFINE t == AssignValue(CreateSuccessor(Id, Instr.next), Instr.target, nextVal)
    <3>1. Explores(<<t>>) /\ ~AtTerminal(Current)
      BY <1>2, <2>3, CreateUnknownStep DEF CreateUnknown, Executes
    <3>2. AtInstr /\ Leaf' = t
      BY <1>1, <1>5, <3>1, FollowOne
    <3> QED
      BY <1>1, <1>3, <2>3, <3>2, FollowUnknown
  <2>4. CASE Cast
    <3> DEFINE t == AssignValue(CreateSuccessor(Id, Instr.next), Instr.target,
                                GetValue(Current, Instr.arg))
    <3>1. Explores(<<t>>) /\ ~AtTerminal(Current)
      BY <1>2, <2>4, CastStep DEF Cast, Executes
    <3>2. AtInstr /\ Leaf' = t
      BY <1>1, <1>5, <3>1, FollowOne
    <3> QED
      BY <1>1, <1>3, <2>4, <3>2, FollowCast
  <2>5. CASE Abort
    <3>1. Explores(<<>>) /\ ~AtTerminal(Current) /\ Operates(Instr) = "Abort"
      BY <1>2, <2>5, AbortStep DEF Abort, Executes
    <3>2. AtInstr /\ SameStep(Leaf, Leaf') /\ Leaf'.new = FALSE
      BY <1>1, <1>5, <3>1, FollowNone
    <3> QED
      BY <1>1, <1>3, <3>1, <3>2, FollowStop
  <2>6. CASE CrashOnOperand
    <3>1. Explores(<<>>) /\ ~AtTerminal(Current) /\ OperandMissing
      BY <1>2, <2>6, CrashOnOperandStep DEF CrashOnOperand
    <3>2. AtInstr /\ SameStep(Leaf, Leaf') /\ Leaf'.new = FALSE
      BY <1>1, <1>5, <3>1, FollowNone
    <3> QED
      BY <1>1, <1>3, <3>1, <3>2, FollowStop
  <2>7. CASE Branch
    <3> DEFINE sides == BranchSides(GetValue(Current, Instr.arg))
    <3>1. Explores(sides) /\ sides # <<>> /\ ~AtTerminal(Current)
      BY <1>2, <2>7, BranchStep, SidesLeft DEF Branch, Executes
    <3>2. AtInstr /\ \E i \in 1 .. Len(sides) : Leaf' = sides[i] /\ Consistent(sides[i], input)
      <4> HIDE DEF sides
      <4> QED
        BY <1>1, <1>5, <3>1, FollowSome
    <3>3. PICK i \in 1 .. Len(sides) : Leaf' = sides[i] /\ Consistent(sides[i], input)
      BY <3>2
    <3> QED
      BY <1>1, <1>3, <2>7, <3>2, <3>3, FollowBranch
  <2>8. CASE Call
    <3>1. Explores(<<Entered>>) /\ ~AtTerminal(Current)
      BY <1>2, <2>8, CallStep DEF Call, Executes
    <3>2. AtInstr /\ Leaf' = Entered
      BY <1>1, <1>5, <3>1, FollowOne
    <3> QED
      BY <1>1, <1>3, <2>8, <3>2, FollowCall
  <2>9. CASE Ret
    <3>1. Explores(<<Left>>) /\ ~AtTerminal(Current)
      BY <1>2, <2>9, RetStep DEF Ret, Executes
    <3>2. AtInstr /\ Leaf' = Left
      BY <1>1, <1>5, <3>1, FollowOne
    <3> QED
      BY <1>1, <1>3, <2>9, <3>2, FollowRet
  <2> QED
    BY <1>1, <2>1, <2>2, <2>3, <2>4, <2>5, <2>6, <2>7, <2>8, <2>9
       DEF Next, vars, ExecuteTerminal, Crash
<1> QED
  BY <1>4, <1>5

\* The exploration, for any program and any inputs of it, makes on one of its
\* paths the steps of the run, in their order: branches go the way the values
\* say, calls bind arguments, returns restore the callers, and errors end the
\* path just where they end the run.
THEOREM RunsFollowed == FSpec => FollowsRun
<1>1. FInit => FollowInv /\ Run!Init
  BY InitStarts, FollowStarts DEF FInit
<1>2. FollowInv /\ [FNext]_<<vars, input>> => FollowInv' /\ [Run!Next]_Run!run
  BY FollowNext
<1> QED
  BY <1>1, <1>2, PTL DEF FSpec, FollowsRun, Run!Spec
=============================================================================
