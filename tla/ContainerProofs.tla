---------------------------- MODULE ContainerProofs ----------------------------
(***************************************************************************)
(* The constraints, for any constants, integers and callers: the index is  *)
(* in step with the constraints, answers follow from what was assumed, and *)
(* branches are decided exactly.                                           *)
(***************************************************************************)
EXTENDS ValueContainer, Induction

(***************************************************************************)
(* The inductive invariant.                                                *)
(***************************************************************************)

IsConstraint(c) ==
    /\ c = Constraint(c.first, c.second, c.relation)
    /\ c.first \in Values /\ c.second \in Values /\ c.relation \in Relations

HoldsIn(c, m) == Holds(c.relation, m[c.first], m[c.second])

\* Callers that never relate a value to itself, and those that sort.
NoSelfPair(c) == \A pair \in c.pairs : pair[1] # pair[2]
Sorts(c) == \A pair \in c.pairs : pair[1] < pair[2]

\* The constraints and the index.
IndexInv ==
    /\ callers \in Callers
    /\ nextConstraintIdToGive \in Nat
    /\ DOMAIN constrContainer \subseteq 0 .. nextConstraintIdToGive - 1
    /\ \A id \in DOMAIN constrContainer :
          /\ IsConstraint(constrContainer[id])
          /\ Sorts(callers) => constrContainer[id].first < constrContainer[id].second
    /\ \A v \in Values :
          /\ constrIdContainer[v] \in Seq(Nat)
          /\ ConstraintsOf(v) = {id \in DOMAIN constrContainer :
                 v \in {constrContainer[id].first, constrContainer[id].second}}
    /\ NoSelfPair(callers) =>
          /\ ~threw
          /\ \A v \in Values : IsInjective(constrIdContainer[v])

\* What is stored is true under all that was assumed.
ModelsInv ==
    \A m \in models :
        /\ m \in [Values -> Domain]
        /\ \A v \in DOMAIN constantContainer : m[v] = constantContainer[v]
        /\ \A id \in DOMAIN constrContainer : HoldsIn(constrContainer[id], m)

ContainerInv == IndexInv /\ OneConstraintPerPair /\ ModelsInv

\* While there are only branches: at most one constraint for a value, with
\* zero, and together they say all that was assumed.
BranchInv ==
    callers.pairs = {} =>
        /\ \A id \in DOMAIN constrContainer :
              LET c == constrContainer[id]
              IN  c.first = Zero /\ ~IsConstant(c.second) /\ c.relation \in {"Eq", "Neq"}
        /\ models = {m \in [Values -> Domain] :
                        /\ \A v \in DOMAIN constantContainer : m[v] = constantContainer[v]
                        /\ \A id \in DOMAIN constrContainer : HoldsIn(constrContainer[id], m)}

LEMMA ValueFacts ==
    ASSUME callers \in Callers
    PROVE  /\ Values \subseteq Nat /\ DOMAIN constantContainer \subseteq Values
           /\ Zero \in Values /\ Zero = 0 /\ IsConstant(Zero) /\ constantContainer[Zero] = 0
           /\ callers.pairs \subseteq Values \X Values
           /\ Domain \subseteq Int
BY ContainerAssumption DEF Values, Zero, IsConstant

(***************************************************************************)
(* Insertion.                                                              *)
(***************************************************************************)

\* A vector to which the new id is added, or not.
LEMMA PushBack ==
    ASSUME NEW p \in Seq(Nat), NEW new \in Nat, NEW B, B \in BOOLEAN,
           NEW q, q = p \o (IF B THEN <<new>> ELSE <<>>)
    PROVE  /\ q \in Seq(Nat)
           /\ ToSet(q) = ToSet(p) \cup (IF B THEN {new} ELSE {})
           /\ IsInjective(p) /\ (B => new \notin ToSet(p)) => IsInjective(q)
<1>1. CASE ~B
  <2>1. q = p
    BY <1>1, ConcatEmptySeq
  <2> QED
    BY <2>1, <1>1
<1>2. CASE B
  <2>1. q = Append(p, new)
    BY <1>2, AppendIsConcat
  <2>2. /\ q \in Seq(Nat) /\ Len(q) = Len(p) + 1
        /\ \A i \in 1 .. Len(p) : q[i] = p[i]
        /\ q[Len(p) + 1] = new
    BY <2>1, AppendProperties
  <2>3. /\ Len(p) \in Nat /\ DOMAIN p = 1 .. Len(p)
        /\ DOMAIN q = 1 .. Len(p) \cup {Len(p) + 1}
    BY <2>2, LenProperties
  <2>4. ToSet(q) = ToSet(p) \cup {new}
    <3>1. \A x \in ToSet(q) : x \in ToSet(p) \cup {new}
      BY <2>2, <2>3 DEF ToSet
    <3>2. \A x \in ToSet(p) : x \in ToSet(q)
      BY <2>2, <2>3 DEF ToSet
    <3>3. new \in ToSet(q)
      BY <2>2, <2>3 DEF ToSet
    <3> QED
      BY <3>1, <3>2, <3>3
  <2>5. IsInjective(p) /\ new \notin ToSet(p) => IsInjective(q)
    BY <2>2, <2>3 DEF IsInjective, ToSet
  <2> QED
    BY <2>2, <2>4, <2>5, <1>2
<1> QED
  BY <1>1, <1>2

\* An id that is in no vector twice is not deleted twice.
LEMMA NoDoubleDelete ==
    ASSUME IndexInv, NEW c, IsConstraint(c),
           \A v \in Values : IsInjective(constrIdContainer[v])
    PROVE  ~DeletesTwice(c)
<1> SUFFICES ASSUME NEW v \in Values, NEW id,
                    Cardinality({i \in DOMAIN constrIdContainer[v] :
                                    constrIdContainer[v][i] = id}) > 1
             PROVE  FALSE
  BY DEF DeletesTwice, IsConstraint
<1> DEFINE I == {i \in DOMAIN constrIdContainer[v] : constrIdContainer[v][i] = id}
<1>1. \A i, j \in I : i = j
  BY DEF IsInjective
<1>2. CASE I = {}
  BY <1>2, FS_EmptySet
<1>3. CASE I # {}
  <2>1. PICK i \in I : I = {i}
    BY <1>1, <1>3
  <2>2. Cardinality(I) = 1
    BY <2>1, FS_Singleton
  <2> QED
    BY <2>2
<1> QED
  BY <1>2, <1>3

LEMMA InsertIndex ==
    ASSUME ContainerInv, ~threw, callers' = callers, NEW c, IsConstraint(c),
           NoSelfPair(callers) => c.first # c.second,
           Sorts(callers) => c.first < c.second,
           InsertConstraint(c)
    PROVE  IndexInv' /\ OneConstraintPerPair'
<1> DEFINE gone == Obsolete(c)
           new == nextConstraintIdToGive
           constr == constrContainer
<1>1. IndexInv /\ OneConstraintPerPair
  BY DEF ContainerInv
<1>2. /\ callers \in Callers /\ new \in Nat /\ DOMAIN constr \subseteq 0 .. new - 1
      /\ Values' = Values /\ new \notin DOMAIN constr
  BY <1>1 DEF IndexInv, Values
<1>3. NoSelfPair(callers) => ~DeletesTwice(c)
  BY <1>1, NoDoubleDelete DEF IndexInv
<1>4. CASE DeletesTwice(c)
  <2>1. /\ constrContainer' = constrContainer /\ constrIdContainer' = constrIdContainer
        /\ nextConstraintIdToGive' = nextConstraintIdToGive
    BY <1>4 DEF InsertConstraint
  <2> QED
    BY <1>1, <1>2, <1>3, <1>4, <2>1 DEF IndexInv, OneConstraintPerPair, IsConstraint, ConstraintsOf
<1>5. CASE ~DeletesTwice(c)
  <2>1. /\ DOMAIN constr' = (DOMAIN constr \ gone) \cup {new}
        /\ \A id \in DOMAIN constr' : constr'[id] = IF id = new THEN c ELSE constr[id]
        /\ constrIdContainer' = [v \in Values |->
               Without(constrIdContainer[v], gone)
               \o (IF v = c.first THEN <<new>> ELSE <<>>)
               \o (IF v = c.second THEN <<new>> ELSE <<>>)]
        /\ nextConstraintIdToGive' = new + 1
        /\ threw' = threw
    BY <1>5 DEF InsertConstraint
  <2> HIDE DEF gone, new
  <2>2. ASSUME NEW id \in DOMAIN constr'
        PROVE  /\ id \in 0 .. new
               /\ IsConstraint(constr[id])'
               /\ Sorts(callers) => constr'[id].first < constr'[id].second
    <3>1. CASE id = new
      <4>1. constr'[id] = c /\ id \in 0 .. new
        BY <2>1, <1>2, <3>1 DEF new
      <4> QED
        BY <4>1, <1>2 DEF IsConstraint
    <3>2. CASE id # new
      <4>1. constr'[id] = constr[id] /\ id \in DOMAIN constr /\ id \in 0 .. new
        BY <2>1, <1>2, <3>2 DEF new
      <4>2. /\ IsConstraint(constr[id])
            /\ Sorts(callers) => constr[id].first < constr[id].second
        BY <1>1, <4>1 DEF IndexInv
      <4> QED
        BY <4>1, <4>2, <1>2 DEF IsConstraint
    <3> QED
      BY <3>1, <3>2
  <2>3. ASSUME NEW v \in Values
        PROVE  /\ constrIdContainer'[v] \in Seq(Nat)
               /\ ConstraintsOf(v)' = {id \in DOMAIN constr' :
                      v \in {constr'[id].first, constr'[id].second}}
               /\ NoSelfPair(callers) => IsInjective(constrIdContainer'[v])
    <3> DEFINE old == constrIdContainer[v]
               kept == Without(old, gone)
               once == kept \o (IF v = c.first THEN <<new>> ELSE <<>>)
               twice == once \o (IF v = c.second THEN <<new>> ELSE <<>>)
    <3>1. /\ old \in Seq(Nat)
          /\ ToSet(old) = {id \in DOMAIN constr : v \in {constr[id].first, constr[id].second}}
          /\ NoSelfPair(callers) => IsInjective(old)
      BY <1>1 DEF IndexInv, ConstraintsOf
    <3> HIDE DEF old
    <3>2. /\ kept \in Seq(Nat) /\ ToSet(kept) = ToSet(old) \ gone
          /\ IsInjective(old) => IsInjective(kept)
      BY <3>1, SelectInFacts DEF Without
    <3>3. constrIdContainer'[v] = twice
      BY <2>1 DEF old
    <3> HIDE DEF kept
    <3>4. new \in Nat /\ new \notin ToSet(kept)
      BY <1>2, <3>1, <3>2 DEF new
    <3>5. /\ once \in Seq(Nat) /\ ToSet(once) = ToSet(kept) \cup (IF v = c.first THEN {new} ELSE {})
          /\ IsInjective(kept) => IsInjective(once)
      <4> DEFINE B == v = c.first
      <4>1. B \in BOOLEAN /\ once = kept \o (IF B THEN <<new>> ELSE <<>>)
        OBVIOUS
      <4> HIDE DEF B, once
      <4>2. /\ once \in Seq(Nat) /\ ToSet(once) = ToSet(kept) \cup (IF B THEN {new} ELSE {})
            /\ IsInjective(kept) => IsInjective(once)
        BY <4>1, <3>2, <3>4, PushBack
      <4> QED
        BY <4>2 DEF B
    <3> HIDE DEF once
    <3>6. /\ twice \in Seq(Nat) /\ ToSet(twice) = ToSet(once) \cup (IF v = c.second THEN {new} ELSE {})
          /\ IsInjective(once) /\ (v = c.second => new \notin ToSet(once)) => IsInjective(twice)
      <4> DEFINE B == v = c.second
      <4>1. B \in BOOLEAN /\ twice = once \o (IF B THEN <<new>> ELSE <<>>)
        OBVIOUS
      <4> HIDE DEF B, twice
      <4>2. once \in Seq(Nat) /\ new \in Nat
        BY <3>4, <3>5
      <4>3. /\ twice \in Seq(Nat) /\ ToSet(twice) = ToSet(once) \cup (IF B THEN {new} ELSE {})
            /\ IsInjective(once) /\ (B => new \notin ToSet(once)) => IsInjective(twice)
        BY ONLY <4>1, <4>2, PushBack
      <4> QED
        BY <4>3 DEF B
    <3> HIDE DEF twice
    <3>7. NoSelfPair(callers) => IsInjective(twice)
      BY <3>1, <3>2, <3>4, <3>5, <3>6
    <3>8. ToSet(twice) = {id \in DOMAIN constr' : v \in {constr'[id].first, constr'[id].second}}
      BY <2>1, <3>1, <3>2, <3>5, <3>6, <1>2 DEF new
    <3> QED
      BY <3>3, <3>6, <3>7, <3>8 DEF ConstraintsOf
  <2>4. IndexInv'
    <3>1. DOMAIN constr' \subseteq 0 .. nextConstraintIdToGive' - 1
      BY <2>1, <2>2, <1>2 DEF new
    <3>2. nextConstraintIdToGive' \in Nat
      BY <2>1, <1>2 DEF new
    <3>3. callers' \in Callers
      BY <1>2
    <3>4. NoSelfPair(callers') <=> NoSelfPair(callers)
      BY DEF NoSelfPair
    <3>5. Sorts(callers') <=> Sorts(callers)
      BY DEF Sorts
    <3>6. \A id \in DOMAIN constr' :
             /\ IsConstraint(constr[id])'
             /\ Sorts(callers') => constr'[id].first < constr'[id].second
      BY <2>2, <3>5
    <3>7. \A v \in Values' :
             /\ constrIdContainer'[v] \in Seq(Nat)
             /\ ConstraintsOf(v)' = {id \in DOMAIN constr' :
                    v \in {constr'[id].first, constr'[id].second}}
      BY <2>3, <1>2
    <3>8. NoSelfPair(callers') => ~threw' /\ \A v \in Values' : IsInjective(constrIdContainer'[v])
      BY <2>3, <1>2, <2>1, <3>4
    <3> HIDE DEF constr
    <3> QED
      BY ONLY <3>1, <3>2, <3>3, <3>6, <3>7, <3>8 DEF IndexInv, constr
  <2>5. ASSUME NEW id \in DOMAIN constr,
               {constr[id].first, constr[id].second} = {c.first, c.second}
        PROVE  id \in gone
    <3>1. c.first \in Values /\ id \in ConstraintsOf(c.first)
      BY <1>1, <2>5 DEF IndexInv, IsConstraint
    <3>2. GetOther(constr[id], c.first) = c.second
      BY <2>5 DEF GetOther
    <3> QED
      BY <3>1, <3>2 DEF gone, Obsolete, ConstraintsOf
  <2>6. OneConstraintPerPair'
    BY <1>1, <2>1, <2>5 DEF OneConstraintPerPair
  <2> QED
    BY <2>4, <2>6
<1> QED
  BY <1>4, <1>5

\* What is stored is among what was assumed.
LEMMA InsertModels ==
    ASSUME ContainerInv, callers' = callers, NEW c,
           models' = {m \in models : HoldsIn(c, m)},
           InsertConstraint(c)
    PROVE  ModelsInv'
<1>1. \A id \in DOMAIN constrContainer' :
         \/ constrContainer'[id] = c
         \/ id \in DOMAIN constrContainer /\ constrContainer'[id] = constrContainer[id]
  BY DEF InsertConstraint
<1>2. ModelsInv
  BY DEF ContainerInv
<1> SUFFICES ASSUME NEW m \in models'
             PROVE  /\ m \in [Values' -> Domain]
                    /\ \A v \in DOMAIN constantContainer : m[v] = constantContainer[v]
                    /\ \A id \in DOMAIN constrContainer' : HoldsIn(constrContainer'[id], m)
  BY DEF ModelsInv, HoldsIn
<1>3. m \in models /\ HoldsIn(c, m)
  OBVIOUS
<1>4. /\ m \in [Values -> Domain]
      /\ \A v \in DOMAIN constantContainer : m[v] = constantContainer[v]
      /\ \A id \in DOMAIN constrContainer : HoldsIn(constrContainer[id], m)
  BY <1>2, <1>3 DEF ModelsInv
<1>5. Values' = Values
  BY DEF Values
<1> QED
  BY <1>1, <1>3, <1>4, <1>5

LEMMA RecordStep ==
    ASSUME ContainerInv, NEW known, NEW c, IsConstraint(c),
           known # "true" /\ NoSelfPair(callers) => c.first # c.second,
           known # "true" /\ Sorts(callers) => c.first < c.second,
           Record(known, c)
    PROVE  ContainerInv'
<1>1. ~threw /\ callers' = callers /\ models' = {m \in models : HoldsIn(c, m)}
  BY DEF Record, HoldsIn
<1>2. CASE known = "true"
  <2>1. /\ constrContainer' = constrContainer /\ constrIdContainer' = constrIdContainer
        /\ nextConstraintIdToGive' = nextConstraintIdToGive /\ threw' = threw
    BY <1>2 DEF Record
  <2>2. Values' = Values /\ models' \subseteq models
    BY <1>1 DEF Values
  <2>3. IndexInv'
    BY <1>1, <2>1, <2>2 DEF ContainerInv, IndexInv, IsConstraint, ConstraintsOf, NoSelfPair, Sorts
  <2>4. OneConstraintPerPair'
    BY <2>1 DEF ContainerInv, OneConstraintPerPair
  <2>5. ModelsInv'
    BY <2>1, <2>2 DEF ContainerInv, ModelsInv, HoldsIn
  <2> QED
    BY <2>3, <2>4, <2>5 DEF ContainerInv
<1>3. CASE known # "true"
  <2>1. InsertConstraint(c)
    BY <1>3 DEF Record
  <2>2. IndexInv' /\ OneConstraintPerPair'
    BY <1>1, <1>3, <2>1, InsertIndex
  <2>3. ModelsInv'
    BY <1>1, <2>1, InsertModels
  <2> QED
    BY <2>2, <2>3 DEF ContainerInv
<1> QED
  BY <1>2, <1>3

\* The branches on a constant.
LEMMA ConstantBranch ==
    ASSUME callers \in Callers, NEW v \in Values, IsConstant(v)
    PROVE  /\ IsTrue(v) = "true" <=> constantContainer[v] # 0
           /\ IsFalse(v) = "true" <=> constantContainer[v] = 0
<1>1. IsConstant(Zero) /\ constantContainer[Zero] = 0
  BY ValueFacts
<1> QED
  BY <1>1 DEF IsTrue, IsFalse, IsCmp, Holds, Tribool

LEMMA ContainerInit == Init => ContainerInv
<1> SUFFICES ASSUME Init PROVE ContainerInv
  OBVIOUS
<1>1. /\ callers \in Callers /\ DOMAIN constrContainer = {} /\ nextConstraintIdToGive = 0
      /\ constrIdContainer = [v \in Values |-> <<>>] /\ ~threw
      /\ \A m \in models : /\ m \in [Values -> Domain]
                           /\ \A v \in DOMAIN constantContainer : m[v] = constantContainer[v]
  BY DEF Init
<1>2. <<>> \in Seq(Nat) /\ ToSet(<<>>) = {} /\ IsInjective(<<>>)
  BY DEF ToSet, IsInjective
<1>3. IndexInv
  BY <1>1, <1>2 DEF IndexInv, ConstraintsOf
<1>4. OneConstraintPerPair /\ ModelsInv
  BY <1>1 DEF OneConstraintPerPair, ModelsInv
<1> QED
  BY <1>3, <1>4 DEF ContainerInv

LEMMA ContainerNext == ContainerInv /\ [Next]_vars => ContainerInv'
<1> SUFFICES ASSUME ContainerInv, [Next]_vars PROVE ContainerInv'
  OBVIOUS
<1>1. callers \in Callers
  BY DEF ContainerInv, IndexInv
<1>2. /\ Values \subseteq Nat /\ Zero \in Values /\ Zero = 0 /\ IsConstant(Zero)
      /\ constantContainer[Zero] = 0 /\ callers.pairs \subseteq Values \X Values
  BY <1>1, ValueFacts
<1>3. \A a, b, r : /\ Constraint(a, b, r).first = a /\ Constraint(a, b, r).second = b
                   /\ Constraint(a, b, r).relation = r
  BY DEF Constraint
<1>4. \A a, b \in Values : \A r \in Relations : IsConstraint(Constraint(a, b, r))
  BY <1>3 DEF IsConstraint
<1>5. ASSUME NEW pair \in callers.pairs, NEW relation \in Relations,
             Assume(pair[1], pair[2], relation)
      PROVE  ContainerInv'
  <2> DEFINE c == Constraint(pair[1], pair[2], relation)
             known == IsCmp(pair[1], pair[2], relation)
  <2>1. pair[1] \in Values /\ pair[2] \in Values
    BY <1>2
  <2>2. c.first = pair[1] /\ c.second = pair[2] /\ IsConstraint(c)
    BY <1>3, <1>4, <2>1
  <2>3. Record(known, c)
    BY <1>5 DEF Assume
  <2>4. /\ NoSelfPair(callers) => c.first # c.second
        /\ Sorts(callers) => c.first < c.second
    BY <2>2 DEF NoSelfPair, Sorts
  <2> HIDE DEF c, known
  <2> QED
    BY <2>2, <2>3, <2>4, RecordStep
<1>6. ASSUME NEW v \in Values, TakeTrue(v) \/ TakeFalse(v)
      PROVE  ContainerInv'
  <2>1. v # Zero => Zero < v /\ v # Zero
    BY <1>2
  <2>2. v = Zero => IsFalse(v) = "true"
    BY <1>1, <1>2, ConstantBranch
  <2>3. CASE TakeTrue(v)
    <3> DEFINE c == Constraint(Zero, v, "Neq")
               known == IsTrue(v)
    <3>1. Record(known, c) /\ v # Zero
      BY <2>2, <2>3 DEF TakeTrue, AssumeTrue
    <3>2. IsConstraint(c) /\ c.first = Zero /\ c.second = v
      BY <1>2, <1>3, <1>4 DEF Relations
    <3> HIDE DEF c, known
    <3> QED
      BY <3>1, <3>2, <2>1, RecordStep
  <2>4. CASE TakeFalse(v)
    <3> DEFINE c == Constraint(Zero, v, "Eq")
               known == IsFalse(v)
    <3>1. Record(known, c) /\ (known # "true" => v # Zero)
      BY <2>2, <2>4 DEF TakeFalse, AssumeFalse
    <3>2. IsConstraint(c) /\ c.first = Zero /\ c.second = v
      BY <1>2, <1>3, <1>4 DEF Relations
    <3> HIDE DEF c, known
    <3> QED
      BY <3>1, <3>2, <2>1, RecordStep
  <2> QED
    BY <1>6, <2>3, <2>4
<1>7. CASE UNCHANGED vars
  <2>1. /\ callers' = callers /\ constrContainer' = constrContainer
        /\ constrIdContainer' = constrIdContainer /\ models' = models
        /\ nextConstraintIdToGive' = nextConstraintIdToGive /\ threw' = threw
    BY <1>7 DEF vars
  <2>2. Values' = Values
    BY <2>1 DEF Values
  <2>3. IndexInv'
    BY <2>1, <2>2 DEF ContainerInv, IndexInv, IsConstraint, ConstraintsOf, NoSelfPair, Sorts
  <2>4. OneConstraintPerPair' /\ ModelsInv'
    BY <2>1, <2>2 DEF ContainerInv, OneConstraintPerPair, ModelsInv, HoldsIn
  <2> QED
    BY <2>3, <2>4 DEF ContainerInv
<1> QED
  BY <1>5, <1>6, <1>7 DEF Next

THEOREM ContainerInvariant == Spec => []ContainerInv
<1> QED
  BY ContainerInit, ContainerNext, PTL DEF Spec

\* A new constraint replaces what was known of its two values, whoever calls.
THEOREM OnePerPairCorrect == Spec => []OneConstraintPerPair
<1>1. ContainerInv => OneConstraintPerPair
  BY DEF ContainerInv
<1> QED
  BY <1>1, ContainerInvariant, PTL

\* No lookup or deletion fails, unless a caller relates a value to itself.
THEOREM IndexCorrect ==
    ASSUME \A c \in Callers : NoSelfPair(c)
    PROVE  Spec => []IndexConsistent
<1>1. ContainerInv => IndexConsistent
  <2> SUFFICES ASSUME ContainerInv PROVE IndexConsistent
    OBVIOUS
  <2>1. NoSelfPair(callers)
    BY DEF ContainerInv, IndexInv
  <2> QED
    BY <2>1 DEF ContainerInv, IndexInv, IndexConsistent, ConstraintsOf
<1> QED
  BY <1>1, ContainerInvariant, PTL

(***************************************************************************)
(* Answers.                                                                *)
(***************************************************************************)

\* An answer is that of some constraint of the value; without one, there is
\* no constraint that answers.
LEMMA FirstAnswerFrom ==
    ASSUME NEW v, constrIdContainer[v] \in Seq(Nat), NEW answer
    PROVE  /\ FirstAnswer(v, answer) # "indeterminate" =>
                 \E id \in ConstraintsOf(v) : answer[id] = FirstAnswer(v, answer)
           /\ FirstAnswer(v, answer) = "indeterminate" =>
                 \A id \in ConstraintsOf(v) : answer[id] = "indeterminate"
<1> DEFINE ids == constrIdContainer[v]
           definite == {i \in DOMAIN ids : answer[ids[i]] # "indeterminate"}
<1>1. FirstAnswer(v, answer) = IF definite = {} THEN "indeterminate" ELSE answer[ids[Min(definite)]]
  BY DEF FirstAnswer
<1>2. DOMAIN ids \subseteq Nat /\ ConstraintsOf(v) = {ids[i] : i \in DOMAIN ids}
  <2>1. ids \in Seq(Nat)
    OBVIOUS
  <2> HIDE DEF ids
  <2>2. Len(ids) \in Nat /\ DOMAIN ids = 1 .. Len(ids)
    BY <2>1, LenProperties
  <2> QED
    BY <2>2 DEF ConstraintsOf, ToSet, ids
<1>3. CASE definite = {}
  BY <1>1, <1>2, <1>3
<1>4. CASE definite # {}
  <2>1. Min(definite) \in definite
    <3>1. definite \in SUBSET Nat
      BY <1>2
    <3> HIDE DEF definite
    <3>2. \E i \in definite : \A j \in definite : i <= j
      BY <1>4, <3>1, NatHasLeast
    <3> QED
      BY <3>2 DEF Min
  <2> QED
    BY <1>1, <1>2, <1>4, <2>1
<1> QED
  BY <1>3, <1>4

\* What a stored relation says of an asked one.
LEMMA RelationFacts ==
    ASSUME NEW stored \in Relations, NEW asked \in Relations, NEW m \in Int, NEW n \in Int,
           Holds(stored, m, n)
    PROVE  /\ stored \in Implying(asked) => Holds(asked, m, n)
           /\ stored \in Refuting(asked) => ~Holds(asked, m, n)
<1>1. /\ asked = "Eq"   => Implying(asked) = {"Eq"} /\ Refuting(asked) = {"Neq", "Gt", "Lt"}
      /\ asked = "Neq"  => Implying(asked) = {"Neq", "Gt", "Lt"} /\ Refuting(asked) = {"Eq"}
      /\ asked = "Gt"   => Implying(asked) = {"Gt"} /\ Refuting(asked) = {"Eq", "Lt", "LtEq"}
      /\ asked = "Lt"   => Implying(asked) = {"Lt"} /\ Refuting(asked) = {"Eq", "Gt", "GtEq"}
      /\ asked = "GtEq" => Implying(asked) = {"Gt", "GtEq", "Eq"} /\ Refuting(asked) = {"Lt"}
      /\ asked = "LtEq" => Implying(asked) = {"Lt", "LtEq", "Eq"} /\ Refuting(asked) = {"Gt"}
  BY DEF Implying, Refuting
<1>2. \A r \in Relations :
         /\ r = "Eq"   => (Holds(r, m, n) <=> m = n)
         /\ r = "Neq"  => (Holds(r, m, n) <=> m # n)
         /\ r = "Gt"   => (Holds(r, m, n) <=> m > n)
         /\ r = "GtEq" => (Holds(r, m, n) <=> m >= n)
         /\ r = "Lt"   => (Holds(r, m, n) <=> m < n)
         /\ r = "LtEq" => (Holds(r, m, n) <=> m <= n)
  BY DEF Holds
<1> QED
  BY <1>1, <1>2 DEF Relations

\* A model, and the constraints of a value under it.
LEMMA ModelFacts ==
    ASSUME ContainerInv, NEW m \in models
    PROVE  /\ \A v \in Values : m[v] \in Int
           /\ \A v \in DOMAIN constantContainer : v \in Values /\ m[v] = constantContainer[v]
           /\ \A v \in Values : \A id \in ConstraintsOf(v) :
                 /\ id \in DOMAIN constrContainer
                 /\ IsConstraint(constrContainer[id])
                 /\ v \in {constrContainer[id].first, constrContainer[id].second}
                 /\ GetOther(constrContainer[id], v) \in Values
                 /\ HoldsIn(constrContainer[id], m)
<1>1. IndexInv /\ ModelsInv /\ callers \in Callers
  BY DEF ContainerInv, IndexInv
<1>2. Domain \subseteq Int /\ DOMAIN constantContainer \subseteq Values
  BY <1>1, ValueFacts
<1>3. m \in [Values -> Domain] /\ \A v \in DOMAIN constantContainer : m[v] = constantContainer[v]
  BY <1>1 DEF ModelsInv
<1>4. ASSUME NEW v \in Values, NEW id \in ConstraintsOf(v)
      PROVE  /\ id \in DOMAIN constrContainer
             /\ IsConstraint(constrContainer[id])
             /\ v \in {constrContainer[id].first, constrContainer[id].second}
             /\ HoldsIn(constrContainer[id], m)
  BY <1>1, <1>4 DEF IndexInv, ModelsInv
<1>5. \A v \in Values : \A id \in ConstraintsOf(v) : GetOther(constrContainer[id], v) \in Values
  BY <1>4 DEF GetOther, IsConstraint
<1> QED
  BY <1>2, <1>3, <1>4, <1>5

\* The answers from constraints with constants hold in either order.
LEMMA WithConstantSound ==
    ASSUME ContainerInv, NEW v \in Values, NEW k \in DOMAIN constantContainer,
           NEW asked \in Relations, NEW m \in models, NEW answer,
           answer = FirstAnswer(v, AnswersWithConstant(v, constantContainer[k], asked))
    PROVE  /\ answer = "true"  => Holds(asked, m[k], m[v]) /\ Holds(asked, m[v], m[k])
           /\ answer = "false" => ~Holds(asked, m[k], m[v]) /\ ~Holds(asked, m[v], m[k])
<1> DEFINE n == constantContainer[k]
           answers == AnswersWithConstant(v, n, asked)
<1> SUFFICES ASSUME answer \in {"true", "false"}
             PROVE  /\ answer = "true"  => Holds(asked, m[k], m[v]) /\ Holds(asked, m[v], m[k])
                    /\ answer = "false" => ~Holds(asked, m[k], m[v]) /\ ~Holds(asked, m[v], m[k])
  OBVIOUS
<1>1. constrIdContainer[v] \in Seq(Nat)
  BY DEF ContainerInv, IndexInv
<1>2. PICK id \in ConstraintsOf(v) : answers[id] = answer
  <2>1. answer = FirstAnswer(v, answers) /\ answer # "indeterminate"
    OBVIOUS
  <2> HIDE DEF answers
  <2> QED
    BY <1>1, <2>1, FirstAnswerFrom
<1> DEFINE c == constrContainer[id]
           other == GetOther(c, v)
           same == constantContainer[other] = n
<1>3. /\ IsConstant(other)
      /\ \/ c.relation = "Eq" /\ asked = "Eq" /\ answer = Tribool(same, ~same)
         \/ c.relation = "Eq" /\ asked = "Neq" /\ answer = Tribool(~same, same)
         \/ c.relation = "Neq" /\ same /\ asked = "Eq" /\ answer = "false"
         \/ c.relation = "Neq" /\ same /\ asked = "Neq" /\ answer = "true"
  BY <1>2 DEF AnswersWithConstant
<1>4. /\ m[k] = n
      /\ HoldsIn(c, m) /\ v \in {c.first, c.second} /\ m[other] = constantContainer[other]
  BY <1>3, ModelFacts DEF IsConstant
<1>5. {m[c.first], m[c.second]} = {m[v], m[other]}
  BY <1>4 DEF GetOther
<1>6. /\ c.relation = "Eq" => m[v] = m[other]
      /\ c.relation = "Neq" => m[v] # m[other]
  BY <1>4, <1>5 DEF HoldsIn, Holds
<1>7. /\ asked = "Eq" => /\ Holds(asked, m[k], m[v]) <=> m[k] = m[v]
                         /\ Holds(asked, m[v], m[k]) <=> m[k] = m[v]
      /\ asked = "Neq" => /\ Holds(asked, m[k], m[v]) <=> m[k] # m[v]
                          /\ Holds(asked, m[v], m[k]) <=> m[k] # m[v]
  BY DEF Holds
<1> HIDE DEF c, other, n, answers
<1> QED
  BY <1>3, <1>4, <1>6, <1>7 DEF Tribool

\* The answers from constraints between two sorted values.
LEMMA BetweenSound ==
    ASSUME ContainerInv, Sorts(callers), NEW v \in Values, NEW w \in Values, v < w,
           NEW asked \in Relations, NEW m \in models, NEW answer,
           answer = FirstAnswer(v, AnswersBetween(v, w, asked))
    PROVE  /\ answer = "true"  => Holds(asked, m[v], m[w])
           /\ answer = "false" => ~Holds(asked, m[v], m[w])
<1> DEFINE answers == AnswersBetween(v, w, asked)
<1> SUFFICES ASSUME answer \in {"true", "false"}
             PROVE  /\ answer = "true"  => Holds(asked, m[v], m[w])
                    /\ answer = "false" => ~Holds(asked, m[v], m[w])
  OBVIOUS
<1>1. constrIdContainer[v] \in Seq(Nat)
  BY DEF ContainerInv, IndexInv
<1>2. PICK id \in ConstraintsOf(v) : answers[id] = answer
  <2>1. answer = FirstAnswer(v, answers) /\ answer # "indeterminate"
    OBVIOUS
  <2> HIDE DEF answers
  <2> QED
    BY <1>1, <2>1, FirstAnswerFrom
<1> DEFINE c == constrContainer[id]
<1>3. /\ GetOther(c, v) = w
      /\ answer = Tribool(c.relation \in Implying(asked), c.relation \in Refuting(asked))
  BY <1>2 DEF AnswersBetween
<1>4. /\ HoldsIn(c, m) /\ v \in {c.first, c.second} /\ IsConstraint(c)
      /\ id \in DOMAIN constrContainer /\ m[v] \in Int /\ m[w] \in Int
  BY ModelFacts
<1>5. c.first < c.second
  BY <1>4 DEF ContainerInv, IndexInv
<1>6. v \in Nat /\ w \in Nat
  BY ValueFacts DEF ContainerInv, IndexInv
<1>7. c.first = v /\ c.second = w
  BY <1>3, <1>4, <1>5, <1>6 DEF GetOther
<1>8. Holds(c.relation, m[v], m[w]) /\ c.relation \in Relations
  BY <1>4, <1>7 DEF HoldsIn, IsConstraint
<1>9. /\ c.relation \in Implying(asked) => Holds(asked, m[v], m[w])
      /\ c.relation \in Refuting(asked) => ~Holds(asked, m[v], m[w])
  BY <1>4, <1>8, RelationFacts
<1> QED
  BY <1>3, <1>9 DEF Tribool

LEMMA CmpSound ==
    ASSUME ContainerInv, Sorts(callers), NEW v \in Values, NEW w \in Values, v < w,
           NEW asked \in Relations, NEW m \in models
    PROVE  /\ IsCmp(v, w, asked) = "true"  => Holds(asked, m[v], m[w])
           /\ IsCmp(v, w, asked) = "false" => ~Holds(asked, m[v], m[w])
<1>1. CASE IsConstant(v) /\ IsConstant(w)
  <2>1. m[v] = constantContainer[v] /\ m[w] = constantContainer[w]
    BY <1>1, ModelFacts DEF IsConstant
  <2>2. IsCmp(v, w, asked) = Tribool(Holds(asked, m[v], m[w]), ~Holds(asked, m[v], m[w]))
    BY <1>1, <2>1 DEF IsCmp
  <2> QED
    BY <2>2 DEF Tribool
<1>2. CASE IsConstant(v) /\ ~IsConstant(w)
  <2>1. IsCmp(v, w, asked) = FirstAnswer(w, AnswersWithConstant(w, constantContainer[v], asked))
    BY <1>2 DEF IsCmp
  <2>2. v \in DOMAIN constantContainer
    BY <1>2 DEF IsConstant
  <2> QED
    BY <2>1, <2>2, WithConstantSound
<1>3. CASE ~IsConstant(v) /\ IsConstant(w)
  <2>1. IsCmp(v, w, asked) = FirstAnswer(v, AnswersWithConstant(v, constantContainer[w], asked))
    BY <1>3 DEF IsCmp
  <2>2. w \in DOMAIN constantContainer
    BY <1>3 DEF IsConstant
  <2> QED
    BY <2>1, <2>2, WithConstantSound
<1>4. CASE ~IsConstant(v) /\ ~IsConstant(w)
  <2>1. IsCmp(v, w, asked) = FirstAnswer(v, AnswersBetween(v, w, asked))
    BY <1>4 DEF IsCmp
  <2> QED
    BY <2>1, BetweenSound
<1> QED
  BY <1>1, <1>2, <1>3, <1>4

\* Equality of two values; which of them comes first plays no part.
LEMMA RepEqSound ==
    ASSUME ContainerInv, NEW v \in Values, NEW w \in Values, v < w, NEW m \in models
    PROVE  /\ IsInternalRepEq(v, w) = "true"  => m[v] = m[w]
           /\ IsInternalRepEq(v, w) = "false" => m[v] # m[w]
<1>1. v \in Nat /\ w \in Nat /\ v # w /\ ~(v > w)
  BY ValueFacts DEF ContainerInv, IndexInv
<1>2. CASE IsConstant(v) /\ IsConstant(w)
  <2>1. m[v] = constantContainer[v] /\ m[w] = constantContainer[w]
    BY <1>2, ModelFacts DEF IsConstant
  <2>2. constantContainer[v] # constantContainer[w]
    BY <1>1, <1>2, ContainerAssumption DEF IsConstant, IsInjective
  <2>3. IsInternalRepEq(v, w) = "false"
    BY <1>1, <1>2 DEF IsInternalRepEq
  <2> QED
    BY <2>1, <2>2, <2>3
<1>3. CASE ~(IsConstant(v) /\ IsConstant(w))
  <2> DEFINE answers == [id \in ConstraintsOf(v) |->
                 IF w \notin {constrContainer[id].first, constrContainer[id].second}
                 THEN "indeterminate"
                 ELSE Tribool(constrContainer[id].relation = "Eq",
                              constrContainer[id].relation \in {"Neq", "Gt", "Lt"})]
             answer == FirstAnswer(v, answers)
  <2>1. IsInternalRepEq(v, w) = answer
    BY <1>1, <1>3 DEF IsInternalRepEq
  <2>2. constrIdContainer[v] \in Seq(Nat)
    BY DEF ContainerInv, IndexInv
  <2> SUFFICES ASSUME answer \in {"true", "false"}
               PROVE  /\ answer = "true"  => m[v] = m[w]
                      /\ answer = "false" => m[v] # m[w]
    BY <2>1
  <2>3. PICK id \in ConstraintsOf(v) : answers[id] = answer
    <3>1. answer = FirstAnswer(v, answers) /\ answer # "indeterminate"
      OBVIOUS
    <3> HIDE DEF answers
    <3> QED
      BY <2>2, <3>1, FirstAnswerFrom
  <2> DEFINE c == constrContainer[id]
  <2>4. /\ w \in {c.first, c.second}
        /\ answer = Tribool(c.relation = "Eq", c.relation \in {"Neq", "Gt", "Lt"})
    BY <2>3
  <2>5. /\ HoldsIn(c, m) /\ v \in {c.first, c.second} /\ m[v] \in Int /\ m[w] \in Int
    BY ModelFacts
  <2>6. {m[c.first], m[c.second]} = {m[v], m[w]}
    BY <1>1, <2>4, <2>5
  <2>7. /\ c.relation = "Eq" => m[c.first] = m[c.second]
        /\ c.relation = "Neq" => m[c.first] # m[c.second]
        /\ c.relation = "Gt" => m[c.first] > m[c.second]
        /\ c.relation = "Lt" => m[c.first] < m[c.second]
    BY <2>5 DEF HoldsIn, Holds
  <2>8. m[c.first] \in Int /\ m[c.second] \in Int
    BY <2>5, <2>6
  <2> HIDE DEF answer, c
  <2>9. answer = "true" => c.relation = "Eq"
    BY <2>4 DEF Tribool
  <2>10. answer = "false" => c.relation \in {"Neq", "Gt", "Lt"}
    BY <2>4 DEF Tribool
  <2>11. c.relation \in {"Neq", "Gt", "Lt"} => m[c.first] # m[c.second]
    BY <2>7, <2>8
  <2> QED
    BY <2>6, <2>7, <2>9, <2>10, <2>11
<1> QED
  BY <1>2, <1>3

\* What a caller that sorts is told follows from what was assumed, whichever
\* relations it assumes, and in whichever order.
THEOREM SortedAnswersCorrect == Spec => []SortedAnswersSound
<1>1. ContainerInv => SortedAnswersSound
  <2> SUFFICES ASSUME ContainerInv, Sorts(callers), NEW v \in Values, NEW w \in Values, v < w
               PROVE  /\ Sound(IsInternalRepEq(v, w), LAMBDA m : m[v] = m[w])
                      /\ \A r \in Relations :
                            Sound(IsCmp(v, w, r), LAMBDA m : Holds(r, m[v], m[w]))
    BY DEF SortedAnswersSound, Sorts
  <2>1. Sound(IsInternalRepEq(v, w), LAMBDA m : m[v] = m[w])
    BY RepEqSound DEF Sound
  <2>2. \A r \in Relations : Sound(IsCmp(v, w, r), LAMBDA m : Holds(r, m[v], m[w]))
    BY CmpSound DEF Sound
  <2> QED
    BY <2>1, <2>2
<1> QED
  BY <1>1, ContainerInvariant, PTL

(***************************************************************************)
(* Branches.                                                               *)
(***************************************************************************)

LEMMA SoleAnswer ==
    ASSUME NEW v, constrIdContainer[v] \in Seq(Nat), NEW id, ConstraintsOf(v) = {id},
           NEW answer, answer[id] # "indeterminate"
    PROVE  FirstAnswer(v, answer) = answer[id]
BY FirstAnswerFrom

\* What an unknown value is told to be: nothing, zero or not zero.
Undecided(v) ==
    /\ ConstraintsOf(v) = {}
    /\ IsTrue(v) = "indeterminate" /\ IsFalse(v) = "indeterminate"
    /\ IsZero(v) = "indeterminate"
TakenFalse(v) ==
    /\ \E id \in ConstraintsOf(v) : constrContainer[id] = Constraint(Zero, v, "Eq")
    /\ IsTrue(v) = "false" /\ IsFalse(v) = "true" /\ IsZero(v) = "true"
TakenTrue(v) ==
    /\ \E id \in ConstraintsOf(v) : constrContainer[id] = Constraint(Zero, v, "Neq")
    /\ IsTrue(v) = "true" /\ IsFalse(v) = "false" /\ IsZero(v) = "false"

LEMMA UnknownBranch ==
    ASSUME ContainerInv, BranchInv, callers.pairs = {}, NEW v \in Values, ~IsConstant(v)
    PROVE  Undecided(v) \/ TakenFalse(v) \/ TakenTrue(v)
<1> DEFINE zeros == [id \in ConstraintsOf(v) |->
               IF ~IsConstant(GetOther(constrContainer[id], v)) THEN "indeterminate"
               ELSE IF constrContainer[id].relation = "Eq"
               THEN Tribool(constantContainer[GetOther(constrContainer[id], v)] = 0,
                            constantContainer[GetOther(constrContainer[id], v)] # 0)
               ELSE Tribool(FALSE,
                     \/ /\ constrContainer[id].relation = "Neq"
                        /\ constantContainer[GetOther(constrContainer[id], v)] = 0
                     \/ /\ constrContainer[id].relation = "Gt"
                        /\ constantContainer[GetOther(constrContainer[id], v)] >= 0
                     \/ /\ constrContainer[id].relation = "GtEq"
                        /\ constantContainer[GetOther(constrContainer[id], v)] > 0
                     \/ /\ constrContainer[id].relation = "Lt"
                        /\ constantContainer[GetOther(constrContainer[id], v)] <= 0
                     \/ /\ constrContainer[id].relation = "LtEq"
                        /\ constantContainer[GetOther(constrContainer[id], v)] < 0)]
           nonzero == AnswersWithConstant(v, 0, "Neq")
           zero == AnswersWithConstant(v, 0, "Eq")
<1>1. IsConstant(Zero) /\ constantContainer[Zero] = 0 /\ Zero = 0
  BY ValueFacts DEF ContainerInv, IndexInv
<1>2. /\ IsTrue(v) = FirstAnswer(v, nonzero)
      /\ IsFalse(v) = FirstAnswer(v, zero)
  BY <1>1 DEF IsTrue, IsFalse, IsCmp
<1>3. IsZero(v) = FirstAnswer(v, zeros)
  BY DEF IsZero
<1>4. constrIdContainer[v] \in Seq(Nat)
  BY DEF ContainerInv, IndexInv
<1>5. CASE ConstraintsOf(v) = {}
  <2> HIDE DEF zeros, nonzero, zero
  <2>1. \A answer : FirstAnswer(v, answer) = "indeterminate"
    BY <1>4, <1>5, FirstAnswerFrom
  <2> QED
    BY <1>2, <1>3, <1>5, <2>1 DEF Undecided
<1>6. CASE ConstraintsOf(v) # {}
  <2>1. PICK id \in ConstraintsOf(v) : TRUE
    BY <1>6
  <2> DEFINE c == constrContainer[id]
  <2>2. ASSUME NEW i \in ConstraintsOf(v)
        PROVE  /\ i \in DOMAIN constrContainer
               /\ \/ constrContainer[i] = Constraint(Zero, v, "Eq")
                  \/ constrContainer[i] = Constraint(Zero, v, "Neq")
    <3> DEFINE d == constrContainer[i]
    <3>1. i \in DOMAIN constrContainer /\ v \in {d.first, d.second} /\ IsConstraint(d)
      BY DEF ContainerInv, IndexInv
    <3>2. d.first = Zero /\ d.relation \in {"Eq", "Neq"}
      BY <3>1 DEF BranchInv
    <3>3. d = Constraint(d.first, d.second, d.relation)
      BY <3>1 DEF IsConstraint
    <3>4. d.second = v
      BY <3>1, <3>2, <1>1
    <3> HIDE DEF d
    <3>5. d = Constraint(Zero, v, "Eq") \/ d = Constraint(Zero, v, "Neq")
      BY <3>2, <3>3, <3>4
    <3> QED
      BY <3>1, <3>5 DEF d
  <2>3. \A r : /\ Constraint(Zero, v, r).first = Zero /\ Constraint(Zero, v, r).second = v
               /\ Constraint(Zero, v, r).relation = r
    BY DEF Constraint
  <2>4. ConstraintsOf(v) = {id}
    <3> SUFFICES ASSUME NEW i \in ConstraintsOf(v) PROVE i = id
      BY <2>1
    <3>1. /\ constrContainer[i].first = Zero /\ constrContainer[i].second = v
          /\ c.first = Zero /\ c.second = v
          /\ i \in DOMAIN constrContainer /\ id \in DOMAIN constrContainer
      BY <2>1, <2>2, <2>3
    <3> QED
      BY <3>1 DEF ContainerInv, OneConstraintPerPair
  <2>5. v # Zero
    BY <1>1
  <2>6. GetOther(c, v) = Zero
    BY <2>1, <2>2, <2>3, <2>5 DEF GetOther
  <2>7. CASE c = Constraint(Zero, v, "Eq")
    <3>1. c.relation = "Eq"
      BY <2>3, <2>7
    <3>2. nonzero[id] = "false" /\ zero[id] = "true" /\ zeros[id] = "true"
      BY <1>1, <2>1, <2>6, <3>1 DEF AnswersWithConstant, Tribool
    <3> HIDE DEF zeros, nonzero, zero
    <3>3. IsTrue(v) = "false" /\ IsFalse(v) = "true" /\ IsZero(v) = "true"
      BY <1>2, <1>3, <1>4, <2>4, <3>2, SoleAnswer
    <3> QED
      BY <2>1, <2>7, <3>3 DEF TakenFalse
  <2>8. CASE c = Constraint(Zero, v, "Neq")
    <3>1. c.relation = "Neq"
      BY <2>3, <2>8
    <3>2. nonzero[id] = "true" /\ zero[id] = "false" /\ zeros[id] = "false"
      BY <1>1, <2>1, <2>6, <3>1 DEF AnswersWithConstant, Tribool
    <3> HIDE DEF zeros, nonzero, zero
    <3>3. IsTrue(v) = "true" /\ IsFalse(v) = "false" /\ IsZero(v) = "false"
      BY <1>2, <1>3, <1>4, <2>4, <3>2, SoleAnswer
    <3> QED
      BY <2>1, <2>8, <3>3 DEF TakenTrue
  <2> QED
    BY <2>1, <2>2, <2>7, <2>8
<1> QED
  BY <1>5, <1>6

\* The first branch on an unknown value adds one constraint and drops none.
LEMMA FreshInsertion ==
    ASSUME ContainerInv, BranchInv, callers.pairs = {}, NEW v \in Values, ~IsConstant(v),
           ConstraintsOf(v) = {}, NEW r \in {"Eq", "Neq"},
           InsertConstraint(Constraint(Zero, v, r))
    PROVE  constrContainer' = [id \in DOMAIN constrContainer \cup {nextConstraintIdToGive} |->
               IF id = nextConstraintIdToGive THEN Constraint(Zero, v, r)
               ELSE constrContainer[id]]
<1> DEFINE c == Constraint(Zero, v, r)
<1>1. IsConstant(Zero) /\ c.first = Zero /\ c.second = v /\ c.relation = r
  BY ValueFacts DEF ContainerInv, IndexInv, Constraint
<1>2. Zero \in Values /\ Zero # v
  BY <1>1, ValueFacts DEF ContainerInv, IndexInv
<1>3. ASSUME NEW id \in ConstraintsOf(Zero), GetOther(constrContainer[id], Zero) = v
      PROVE  FALSE
  <2>1. id \in DOMAIN constrContainer /\ v \in {constrContainer[id].first, constrContainer[id].second}
    BY <1>2, <1>3 DEF ContainerInv, IndexInv, GetOther
  <2>2. id \in ConstraintsOf(v)
    BY <2>1 DEF ContainerInv, IndexInv
  <2> QED
    BY <2>2
<1> HIDE DEF c
<1>4. Obsolete(c) = {}
  BY <1>1, <1>3 DEF Obsolete, ConstraintsOf
<1>5. ~DeletesTwice(c)
  BY <1>4 DEF DeletesTwice
<1>6. InsertConstraint(c) /\ c = Constraint(Zero, v, r)
  BY DEF c
<1> QED
  BY <1>4, <1>5, <1>6 DEF InsertConstraint

LEMMA BranchInit == Init => BranchInv
<1> SUFFICES ASSUME Init PROVE BranchInv
  OBVIOUS
<1>1. DOMAIN constrContainer = {}
  BY DEF Init
<1> QED
  BY <1>1 DEF Init, BranchInv

\* A branch stores what it assumes, or all models agree with it already.
LEMMA BranchRecord ==
    ASSUME ContainerInv, BranchInv, callers.pairs = {}, callers' = callers,
           NEW v \in Values, NEW r \in {"Eq", "Neq"},
           NEW known, known = IsCmp(v, Zero, r),
           known # "true" => ~IsConstant(v) /\ ConstraintsOf(v) = {},
           Record(known, Constraint(Zero, v, r))
    PROVE  BranchInv'
<1> DEFINE c == Constraint(Zero, v, r)
<1>1. /\ c.first = Zero /\ c.second = v /\ c.relation = r
      /\ IsConstant(Zero) /\ Zero \in DOMAIN constantContainer /\ constantContainer[Zero] = 0
  BY ValueFacts DEF ContainerInv, IndexInv, Constraint, IsConstant
<1> HIDE DEF c
<1>2. models' = {m \in models : HoldsIn(c, m)}
  BY <1>1 DEF Record, HoldsIn, c
<1>3. Values' = Values
  BY DEF Values
<1>4. models = {m \in [Values -> Domain] :
                   /\ \A x \in DOMAIN constantContainer : m[x] = constantContainer[x]
                   /\ \A id \in DOMAIN constrContainer : HoldsIn(constrContainer[id], m)}
  BY DEF BranchInv
<1>5. \A id \in DOMAIN constrContainer :
         /\ constrContainer[id].first = Zero /\ ~IsConstant(constrContainer[id].second)
         /\ constrContainer[id].relation \in {"Eq", "Neq"}
  BY DEF BranchInv
<1>6. CASE known = "true"
  <2>1. constrContainer' = constrContainer
    BY <1>6 DEF Record
  <2>2. ASSUME NEW m \in models PROVE HoldsIn(c, m)
    <3>1. Holds(r, m[Zero], m[v])
      <4>1. r \in Relations
        BY DEF Relations
      <4>2. CASE IsConstant(v)
        <5>1. m[v] = constantContainer[v] /\ m[Zero] = 0
          BY <1>1, <4>2, ModelFacts DEF IsConstant
        <5>2. known = Tribool(Holds(r, m[v], 0), ~Holds(r, m[v], 0))
          BY <1>1, <4>2, <5>1 DEF IsCmp
        <5>3. Holds(r, m[v], m[Zero])
          BY <1>6, <5>1, <5>2 DEF Tribool
        <5> QED
          BY <5>3 DEF Holds
      <4>3. CASE ~IsConstant(v)
        <5>1. known = FirstAnswer(v, AnswersWithConstant(v, constantContainer[Zero], r))
          BY <1>1, <4>3 DEF IsCmp
        <5> QED
          BY <1>1, <1>6, <4>1, <5>1, WithConstantSound
      <4> QED
        BY <4>2, <4>3
    <3> QED
      BY <1>1, <3>1 DEF HoldsIn
  <2>3. models' = models
    BY <1>2, <2>2
  <2>4. models' = {m \in [Values' -> Domain] :
                      /\ \A x \in DOMAIN constantContainer : m[x] = constantContainer[x]
                      /\ \A id \in DOMAIN constrContainer' : HoldsIn(constrContainer'[id], m)}
    BY <1>3, <1>4, <2>1, <2>3
  <2> QED
    BY <1>5, <2>1, <2>4 DEF BranchInv, HoldsIn, IsConstant
<1>7. CASE known # "true"
  <2> DEFINE new == nextConstraintIdToGive
  <2>1. constrContainer' = [id \in DOMAIN constrContainer \cup {new} |->
                               IF id = new THEN c ELSE constrContainer[id]]
    <3>1. InsertConstraint(c)
      BY <1>7 DEF Record, c
    <3> QED
      BY <1>7, <3>1, FreshInsertion DEF c
  <2>2. new \notin DOMAIN constrContainer
    BY DEF ContainerInv, IndexInv
  <2> HIDE DEF new
  <2>3. /\ DOMAIN constrContainer' = DOMAIN constrContainer \cup {new}
        /\ constrContainer'[new] = c
        /\ \A id \in DOMAIN constrContainer : constrContainer'[id] = constrContainer[id]
    BY <2>1, <2>2
  <2>4. \A m : (\A id \in DOMAIN constrContainer' : HoldsIn(constrContainer'[id], m))
               <=> /\ \A id \in DOMAIN constrContainer : HoldsIn(constrContainer[id], m)
                   /\ HoldsIn(c, m)
    BY <2>3
  <2>5. models' = {m \in [Values' -> Domain] :
                      /\ \A x \in DOMAIN constantContainer : m[x] = constantContainer[x]
                      /\ \A id \in DOMAIN constrContainer' : HoldsIn(constrContainer'[id], m)}
    BY <1>2, <1>3, <1>4, <2>4
  <2>6. \A id \in DOMAIN constrContainer' :
           /\ constrContainer'[id].first = Zero /\ ~IsConstant(constrContainer'[id].second)
           /\ constrContainer'[id].relation \in {"Eq", "Neq"}
    BY <1>1, <1>5, <1>7, <2>3
  <2> QED
    BY <2>5, <2>6 DEF BranchInv, HoldsIn, IsConstant
<1> QED
  BY <1>6, <1>7

LEMMA BranchNext == ContainerInv /\ BranchInv /\ [Next]_vars => BranchInv'
<1> SUFFICES ASSUME ContainerInv, BranchInv, [Next]_vars, callers'.pairs = {} PROVE BranchInv'
  BY DEF BranchInv
<1>1. callers' = callers /\ callers.pairs = {}
  BY DEF Next, vars, Assume, TakeTrue, AssumeTrue, TakeFalse, AssumeFalse, Record
<1>2. ASSUME NEW v \in Values, NEW r \in {"Eq", "Neq"}, NEW known,
             known = IsCmp(v, Zero, r), known # "true",
             r = "Eq"  => IsTrue(v) # "true",
             r = "Neq" => IsFalse(v) # "true"
      PROVE  ~IsConstant(v) /\ ConstraintsOf(v) = {}
  <2>1. IsTrue(v) # "true" /\ IsFalse(v) # "true"
    BY <1>2 DEF IsTrue, IsFalse
  <2>2. ~IsConstant(v)
    BY <2>1, ConstantBranch DEF ContainerInv, IndexInv
  <2> QED
    BY <1>1, <2>1, <2>2, UnknownBranch DEF Undecided, TakenTrue, TakenFalse
<1>3. ASSUME NEW v \in Values, TakeTrue(v) PROVE BranchInv'
  <2> DEFINE known == IsCmp(v, Zero, "Neq")
  <2>1. Record(known, Constraint(Zero, v, "Neq")) /\ IsFalse(v) # "true"
    BY <1>3 DEF TakeTrue, AssumeTrue, IsTrue
  <2>2. known # "true" => ~IsConstant(v) /\ ConstraintsOf(v) = {}
    BY <1>2, <2>1
  <2>3. known = IsCmp(v, Zero, "Neq")
    OBVIOUS
  <2> HIDE DEF known
  <2> QED
    BY <1>1, <2>1, <2>2, <2>3, BranchRecord
<1>4. ASSUME NEW v \in Values, TakeFalse(v) PROVE BranchInv'
  <2> DEFINE known == IsCmp(v, Zero, "Eq")
  <2>1. Record(known, Constraint(Zero, v, "Eq")) /\ IsTrue(v) # "true"
    BY <1>4 DEF TakeFalse, AssumeFalse, IsFalse
  <2>2. known # "true" => ~IsConstant(v) /\ ConstraintsOf(v) = {}
    BY <1>2, <2>1
  <2>3. known = IsCmp(v, Zero, "Eq")
    OBVIOUS
  <2> HIDE DEF known
  <2> QED
    BY <1>1, <2>1, <2>2, <2>3, BranchRecord
<1>5. CASE UNCHANGED vars
  <2>1. callers' = callers /\ constrContainer' = constrContainer /\ models' = models
    BY <1>5 DEF vars
  <2>2. Values' = Values
    BY <2>1 DEF Values
  <2> QED
    BY <2>1, <2>2 DEF BranchInv, HoldsIn, IsConstant
<1> QED
  BY <1>1, <1>3, <1>4, <1>5 DEF Next

\* Integers for the values: zero for those that took the false side, and for
\* one more, d for the others.
Model(d, u) ==
    [x \in Values |->
        IF IsConstant(x) THEN constantContainer[x]
        ELSE IF TakenFalse(x) \/ x = u THEN 0 ELSE d]

LEMMA ModelExists ==
    ASSUME ContainerInv, BranchInv, callers.pairs = {},
           NEW d \in Domain, d # 0, NEW u \in Values, IsConstant(u) \/ Undecided(u)
    PROVE  Model(d, u) \in models
<1> DEFINE m == Model(d, u)
<1>1. /\ Zero \in Values /\ Zero = 0 /\ IsConstant(Zero) /\ constantContainer[Zero] = 0
      /\ DOMAIN constantContainer \subseteq Values
  BY ValueFacts DEF ContainerInv, IndexInv
<1>2. 0 \in Domain
  BY ContainerAssumption
<1>3. m \in [Values -> Domain]
  BY <1>2, ContainerAssumption DEF Model, IsConstant
<1>4. \A x \in DOMAIN constantContainer : m[x] = constantContainer[x]
  BY <1>1 DEF Model, IsConstant
<1>5. ASSUME NEW id \in DOMAIN constrContainer PROVE HoldsIn(constrContainer[id], m)
  <2> DEFINE c == constrContainer[id]
             x == c.second
  <2>1. c.first = Zero /\ ~IsConstant(x) /\ c.relation \in {"Eq", "Neq"}
    BY <1>5 DEF BranchInv
  <2>2. x \in Values /\ id \in ConstraintsOf(x)
    BY <1>5 DEF ContainerInv, IndexInv, IsConstraint
  <2>3. m[Zero] = 0
    BY <1>1 DEF Model
  <2>4. m[x] = IF TakenFalse(x) \/ x = u THEN 0 ELSE d
    BY <2>1, <2>2 DEF Model
  <2>5. x # u
    <3>1. ~Undecided(x)
      BY <2>2 DEF Undecided
    <3> QED
      BY <2>1, <3>1
  <2>6. \A i \in ConstraintsOf(x) : constrContainer[i].first = Zero /\ constrContainer[i].second = x
          /\ i \in DOMAIN constrContainer => i = id
    BY <1>5, <2>1 DEF ContainerInv, OneConstraintPerPair
  <2>7. \A r : /\ Constraint(Zero, x, r).first = Zero /\ Constraint(Zero, x, r).second = x
               /\ Constraint(Zero, x, r).relation = r
    BY DEF Constraint
  <2>8. \A i \in ConstraintsOf(x) : i \in DOMAIN constrContainer
    BY <2>2 DEF ContainerInv, IndexInv
  <2> HIDE DEF m, c, x
  <2>9. TakenFalse(x) => c.relation = "Eq"
    BY <2>6, <2>7, <2>8 DEF TakenFalse, c
  <2>10. TakenTrue(x) => c.relation = "Neq"
    BY <2>6, <2>7, <2>8 DEF TakenTrue, c
  <2>11. TakenFalse(x) \/ TakenTrue(x)
    BY <2>1, <2>2, UnknownBranch DEF Undecided
  <2>12. m[c.first] = 0 /\ m[c.second] = IF c.relation = "Eq" THEN 0 ELSE d
    BY <2>1, <2>3, <2>4, <2>5, <2>9, <2>10, <2>11 DEF x
  <2>13. Holds(c.relation, m[c.first], m[c.second])
    <3>1. CASE c.relation = "Eq"
      BY <2>12, <3>1 DEF Holds
    <3>2. CASE c.relation = "Neq"
      BY <2>12, <3>2 DEF Holds
    <3> QED
      BY <2>1, <3>1, <3>2
  <2> QED
    BY <2>13 DEF HoldsIn, c
<1> HIDE DEF m
<1>6. m \in models
  BY <1>3, <1>4, <1>5 DEF BranchInv
<1> QED
  BY <1>6 DEF m

LEMMA BranchExact == ContainerInv /\ BranchInv => BranchesExact
<1> SUFFICES ASSUME ContainerInv, BranchInv, callers.pairs = {}
             PROVE  /\ models # {}
                    /\ \A v \in Values :
                          /\ IsTrue(v) = "true" <=> \A m \in models : m[v] # 0
                          /\ IsFalse(v) = "true" <=> \A m \in models : m[v] = 0
                          /\ Sound(IsZero(v), LAMBDA m : m[v] = 0)
  BY DEF BranchesExact
<1>1. PICK d \in Domain : d # 0
  BY ContainerAssumption
<1>2. Zero \in Values /\ IsConstant(Zero) /\ callers \in Callers
  BY ValueFacts DEF ContainerInv, IndexInv
<1>3. Model(d, Zero) \in models
  BY <1>1, <1>2, ModelExists
<1>4. ASSUME NEW v \in Values
      PROVE  /\ IsTrue(v) = "true" <=> \A m \in models : m[v] # 0
             /\ IsFalse(v) = "true" <=> \A m \in models : m[v] = 0
             /\ IsZero(v) = "true"  => \A m \in models : m[v] = 0
             /\ IsZero(v) = "false" => \A m \in models : m[v] # 0
  <2>1. CASE IsConstant(v)
    <3>1. \A m \in models : m[v] = constantContainer[v]
      BY <2>1, ModelFacts DEF IsConstant
    <3>2. /\ IsTrue(v) = "true" <=> constantContainer[v] # 0
          /\ IsFalse(v) = "true" <=> constantContainer[v] = 0
      BY <1>2, <2>1, ConstantBranch
    <3>3. IsZero(v) = Tribool(constantContainer[v] = 0, constantContainer[v] # 0)
      BY <2>1 DEF IsZero
    <3> QED
      BY <1>3, <3>1, <3>2, <3>3 DEF Tribool
  <2>2. CASE ~IsConstant(v)
    <3>1. ASSUME NEW m \in models, NEW r, NEW id \in ConstraintsOf(v),
                 constrContainer[id] = Constraint(Zero, v, r)
          PROVE  Holds(r, 0, m[v])
      <4>1. HoldsIn(constrContainer[id], m) /\ m[Zero] = 0
        BY <1>2, ValueFacts, ModelFacts DEF IsConstant
      <4> QED
        BY <3>1, <4>1 DEF HoldsIn, Constraint
    <3>2. CASE TakenFalse(v)
      <4>1. \A m \in models : m[v] = 0
        BY <3>1, <3>2 DEF TakenFalse, Holds
      <4> QED
        BY <1>3, <3>2, <4>1 DEF TakenFalse
    <3>3. CASE TakenTrue(v)
      <4>1. \A m \in models : m[v] # 0
        BY <3>1, <3>3 DEF TakenTrue, Holds
      <4> QED
        BY <1>3, <3>3, <4>1 DEF TakenTrue
    <3>4. CASE Undecided(v)
      <4>1. Model(d, v) \in models
        BY <1>1, <3>4, ModelExists
      <4>2. Model(d, v)[v] = 0
        BY <2>2 DEF Model
      <4>3. Model(d, Zero)[v] = d
        BY <1>2, <2>2, <3>4 DEF Model, Undecided, TakenFalse
      <4> QED
        BY <1>1, <1>3, <3>4, <4>1, <4>2, <4>3 DEF Undecided
    <3> QED
      BY <1>2, <2>2, <3>2, <3>3, <3>4, UnknownBranch
  <2> QED
    BY <2>1, <2>2
<1> QED
  BY <1>3, <1>4 DEF Sound

\* On a path that only branches, the values decide a branch exactly when the
\* branches before it do, and no path contradicts itself.
THEOREM BranchesCorrect == Spec => []BranchesExact
<1> QED
  BY ContainerInit, ContainerNext, BranchInit, BranchNext, BranchExact, PTL DEF Spec
=============================================================================
