---------------------------- MODULE ValueContainer ----------------------------
(***************************************************************************)
(* The constraints between values (ValueContainerV1.cpp): what is assumed  *)
(* on a path, how it is stored, and what is answered from it.  Values have *)
(* one type here; folding of constants and the other arithmetic is left    *)
(* out.                                                                    *)
(***************************************************************************)
EXTENDS Integers, Sequences, FiniteSets, SequencesExt, FiniteSetsExt, Selection

CONSTANTS
    constantContainer, \* constant ValueIds -> their integers
    Domain,            \* the integers an unknown value may be
    Callers            \* the ways the container is used: [unknowns, pairs, limit]

\* CreateConstIntVal gives a constant that exists its old id.
ASSUME ContainerAssumption ==
    /\ 0 \in DOMAIN constantContainer /\ constantContainer[0] = 0
    /\ \A v \in DOMAIN constantContainer : constantContainer[v] \in Domain
    /\ IsInjective(constantContainer)
    /\ Domain \subseteq Int /\ Domain \ {0} # {}
    /\ \A c \in Callers :
          LET values == DOMAIN constantContainer \cup c.unknowns
          IN  /\ values \subseteq Nat /\ c.pairs \subseteq values \X values
              /\ DOMAIN constantContainer \cap c.unknowns = {}
              /\ c.limit \in Nat

VARIABLES
    callers,                \* who uses this container: the other ValueIds, the
                            \* arguments given to Assume, and a bound, the
                            \* ConstraintIds are 0..limit-1
    constrContainer,        \* ConstraintId -> [first, second, relation]
    constrIdContainer,      \* ValueId -> sequence of ConstraintIds
    nextConstraintIdToGive,
    models,                 \* history: the ways to give integers to the values
                            \* under which all that callers assumed is true
    threw                   \* an operation threw std::runtime_error

vars == <<callers, constrContainer, constrIdContainer, nextConstraintIdToGive, models, threw>>

Zero == 0
Relations == {"Eq", "Neq", "Gt", "GtEq", "Lt", "LtEq"}   \* the signed ones
IsConstant(v) == v \in DOMAIN constantContainer
Values == DOMAIN constantContainer \cup callers.unknowns

Holds(relation, m, n) ==
    CASE relation = "Eq"   -> m = n
      [] relation = "Neq"  -> m # n
      [] relation = "Gt"   -> m > n
      [] relation = "GtEq" -> m >= n
      [] relation = "Lt"   -> m < n
      [] relation = "LtEq" -> m <= n

Tribool(yes, no) == IF yes THEN "true" ELSE IF no THEN "false" ELSE "indeterminate"

\* BinaryConstraint: the constructor compares its members before they are
\* set, so the arguments are stored in the order given.
Constraint(first, second, relation) ==
    [first |-> first, second |-> second, relation |-> relation]
GetOther(c, v) == IF v = c.first THEN c.second ELSE c.first

-----------------------------------------------------------------------------
(* Queries.                                                                *)

\* The answer of the first constraint of a value that has one.
FirstAnswer(v, answer) ==
    LET ids == constrIdContainer[v]
        definite == {i \in DOMAIN ids : answer[ids[i]] # "indeterminate"}
    IN  IF definite = {} THEN "indeterminate" ELSE answer[ids[Min(definite)]]
ConstraintsOf(v) == ToSet(constrIdContainer[v])

\* The relations from which an asked one follows, or its opposite.
Implying(asked) ==
    CASE asked = "Eq"   -> {"Eq"}
      [] asked = "Neq"  -> {"Neq", "Gt", "Lt"}
      [] asked = "Gt"   -> {"Gt"}
      [] asked = "Lt"   -> {"Lt"}
      [] asked = "GtEq" -> {"Gt", "GtEq", "Eq"}
      [] asked = "LtEq" -> {"Lt", "LtEq", "Eq"}
\* Mutant: "at most" is taken to refute "at least".
RefutingLtEq(asked) ==
    CASE asked = "Eq"   -> {"Neq", "Gt", "Lt"}
      [] asked = "Neq"  -> {"Eq"}
      [] asked = "Gt"   -> {"Eq", "Lt", "LtEq"}
      [] asked = "Lt"   -> {"Eq", "Gt", "GtEq"}
      [] asked = "GtEq" -> {"Lt", "LtEq"}
      [] asked = "LtEq" -> {"Gt"}
Refuting(asked) ==
    CASE asked = "Eq"   -> {"Neq", "Gt", "Lt"}
      [] asked = "Neq"  -> {"Eq"}
      [] asked = "Gt"   -> {"Eq", "Lt", "LtEq"}
      [] asked = "Lt"   -> {"Eq", "Gt", "GtEq"}
      [] asked = "GtEq" -> {"Lt"}
      [] asked = "LtEq" -> {"Gt"}

\* What the constraints of v answer about v and a constant n, ...
AnswersWithConstant(v, n, asked) ==
    [id \in ConstraintsOf(v) |->
        LET c     == constrContainer[id]
            other == GetOther(c, v)
            same  == constantContainer[other] = n
        IN  IF ~IsConstant(other) THEN "indeterminate"
            ELSE CASE c.relation = "Eq" /\ asked = "Eq"  -> Tribool(same, ~same)
                   [] c.relation = "Eq" /\ asked = "Neq" -> Tribool(~same, same)
                   [] c.relation = "Neq" /\ same /\ asked = "Eq"  -> "false"
                   [] c.relation = "Neq" /\ same /\ asked = "Neq" -> "true"
                   [] OTHER -> "indeterminate"]
\* ... and about v and w.
AnswersBetween(v, w, asked) ==
    [id \in ConstraintsOf(v) |->
        LET c == constrContainer[id]
        IN  IF GetOther(c, v) # w THEN "indeterminate"
            ELSE Tribool(c.relation \in Implying(asked), c.relation \in Refuting(asked))]

\* Both constant: computed.  One constant: only (in)equality is answered,
\* from constraints with constants.  Otherwise from constraints between the
\* two, whichever of them comes first in the constraint.
IsCmp(first, second, asked) ==
    CASE IsConstant(first) /\ IsConstant(second) ->
            LET answer == Holds(asked, constantContainer[first], constantContainer[second])
            IN  Tribool(answer, ~answer)
      [] IsConstant(first) /\ ~IsConstant(second) ->
            FirstAnswer(second, AnswersWithConstant(second, constantContainer[first], asked))
      [] ~IsConstant(first) /\ IsConstant(second) ->
            FirstAnswer(first, AnswersWithConstant(first, constantContainer[second], asked))
      [] OTHER -> FirstAnswer(first, AnswersBetween(first, second, asked))

IsTrue(v)  == IsCmp(v, Zero, "Neq")
IsFalse(v) == IsCmp(v, Zero, "Eq")

\* IsInternalRepEq, of two values that are not both constant; it looks at
\* the constraints of the smaller id.
IsInternalRepEq(v, w) ==
    LET first  == IF v > w THEN w ELSE v
        second == IF v > w THEN v ELSE w
        answer == [id \in ConstraintsOf(first) |->
            LET c == constrContainer[id]
            IN  IF second \notin {c.first, c.second} THEN "indeterminate"
                ELSE Tribool(c.relation = "Eq", c.relation \in {"Neq", "Gt", "Lt"})]
    IN  CASE v = w -> "true"
          [] v # w /\ IsConstant(v) /\ IsConstant(w) -> "false"
          [] OTHER -> FirstAnswer(first, answer)

\* IsZero reads every constraint as "the value, relation, the constant".
IsZero(v) ==
    LET answer == [id \in ConstraintsOf(v) |->
            LET c == constrContainer[id]
                n == constantContainer[GetOther(c, v)]
                excluded == \/ c.relation = "Neq" /\ n = 0
                            \/ c.relation = "Gt" /\ n >= 0
                            \/ c.relation = "GtEq" /\ n > 0
                            \/ c.relation = "Lt" /\ n <= 0
                            \/ c.relation = "LtEq" /\ n < 0
            IN  IF ~IsConstant(GetOther(c, v)) THEN "indeterminate"
                ELSE IF c.relation = "Eq" THEN Tribool(n = 0, n # 0)
                ELSE Tribool(FALSE, excluded)]
    IN  IF IsConstant(v) THEN Tribool(constantContainer[v] = 0, constantContainer[v] # 0)
        ELSE FirstAnswer(v, answer)

-----------------------------------------------------------------------------
(* Assumptions.                                                            *)

\* Mutant: mutual constraints are recognised in one order only.
ObsoleteSameOrder(c) ==
    LET valued == IF IsConstant(c.first) THEN c.second ELSE c.first
        equalToConstant == c.relation = "Eq" /\ (IsConstant(c.first) \/ IsConstant(c.second))
    IN  (IF equalToConstant THEN ToSet(constrIdContainer[valued]) ELSE {})
        \cup {id \in ToSet(constrIdContainer[c.first]) :
                 constrContainer[id].first = c.first /\ constrContainer[id].second = c.second}

\* What InsertConstraint deletes: everything known of a value that is now
\* equal to a constant, and every constraint between the two values.
Obsolete(c) ==
    LET valued == IF IsConstant(c.first) THEN c.second ELSE c.first
        equalToConstant == c.relation = "Eq" /\ (IsConstant(c.first) \/ IsConstant(c.second))
    IN  (IF equalToConstant THEN ToSet(constrIdContainer[valued]) ELSE {})
        \cup {id \in ToSet(constrIdContainer[c.first]) :
                 GetOther(constrContainer[id], c.first) = c.second}

\* DeleteConstraint throws when it is called twice for an id, which happens
\* when the vector that is gone through lists the id twice.
DeletesTwice(c) ==
    \E v \in {c.first, c.second} : \E id \in Obsolete(c) :
        Cardinality({i \in DOMAIN constrIdContainer[v] : constrIdContainer[v][i] = id}) > 1

\* Mutant: deleted ids stay in the vectors.
WithoutNone(ids, gone) == ids

\* DeleteConstraint erases the id from the vectors of both values.
Without(ids, gone) == SelectIn(ids, ToSet(ids) \ gone)

InsertConstraint(c) ==
    /\ nextConstraintIdToGive < callers.limit
    /\ IF DeletesTwice(c)
       THEN /\ threw' = TRUE
            /\ UNCHANGED <<constrContainer, constrIdContainer, nextConstraintIdToGive>>
       ELSE LET gone == Obsolete(c)
                new  == nextConstraintIdToGive
            IN  /\ constrContainer' = [id \in (DOMAIN constrContainer \ gone) \cup {new} |->
                                          IF id = new THEN c ELSE constrContainer[id]]
                /\ constrIdContainer' = [v \in Values |->
                       Without(constrIdContainer[v], gone)
                       \o (IF v = c.first THEN <<new>> ELSE <<>>)
                       \o (IF v = c.second THEN <<new>> ELSE <<>>)]
                /\ nextConstraintIdToGive' = new + 1
                /\ UNCHANGED threw

\* A fact already known is not stored again.
Record(known, c) ==
    /\ ~threw
    /\ UNCHANGED callers
    /\ models' = {m \in models : Holds(c.relation, m[c.first], m[c.second])}
    /\ IF known = "true"
       THEN UNCHANGED <<constrContainer, constrIdContainer, nextConstraintIdToGive, threw>>
       ELSE InsertConstraint(c)

Assume(first, second, relation) ==
    Record(IsCmp(first, second, relation), Constraint(first, second, relation))

AssumeTrue(v)  == Record(IsTrue(v), Constraint(Zero, v, "Neq"))
AssumeFalse(v) == Record(IsFalse(v), Constraint(Zero, v, "Eq"))

\* Mutant: the true side is always taken.
TakeTrueAlways(v) == AssumeTrue(v)
\* BasicOperationBranch, each side on its own copy of the container: a side
\* that the container refutes is not taken.
TakeTrue(v)  == IsFalse(v) # "true" /\ AssumeTrue(v)
TakeFalse(v) == IsTrue(v) # "true" /\ AssumeFalse(v)

Init ==
    /\ callers \in Callers
    /\ constrContainer = <<>>
    /\ constrIdContainer = [v \in Values |-> <<>>]
    /\ nextConstraintIdToGive = 0
    /\ models = {m \in [Values -> Domain] :
                    \A v \in DOMAIN constantContainer : m[v] = constantContainer[v]}
    /\ threw = FALSE

Next ==
    \/ \E pair \in callers.pairs, relation \in Relations : Assume(pair[1], pair[2], relation)
    \/ \E v \in Values : TakeTrue(v) \/ TakeFalse(v)

Spec == Init /\ [][Next]_vars

-----------------------------------------------------------------------------
(* Properties.                                                             *)

Sound(answer, fact(_)) ==
    /\ answer = "true"  => \A m \in models : fact(m)
    /\ answer = "false" => \A m \in models : ~fact(m)

\* The vectors of a value list its constraints and no deleted one, so no
\* lookup or deletion of a ConstraintId fails (the throws of IsCmp, IsZero,
\* Insert- and DeleteConstraint), as long as no value is related to itself.
IndexConsistent ==
    /\ ~threw
    /\ \A v \in Values : ToSet(constrIdContainer[v]) =
          {id \in DOMAIN constrContainer :
              v \in {constrContainer[id].first, constrContainer[id].second}}
    /\ DOMAIN constrContainer \subseteq 0 .. nextConstraintIdToGive - 1

\* A new constraint between two values replaces the old ones ("delete mutual
\* constraints", ValueContainerV1.cpp:181), in either order of the two, so
\* what is answered never depends on which of them is found first.
OneConstraintPerPair ==
    \A i, j \in DOMAIN constrContainer :
        {constrContainer[i].first, constrContainer[i].second} =
        {constrContainer[j].first, constrContainer[j].second} => i = j

\* When callers sort the two values, as IsCmp asks them to, what it answers
\* follows from the assumptions, although new constraints replace old ones.
SortedAnswersSound ==
    (\A pair \in callers.pairs : pair[1] < pair[2]) => \A v, w \in Values : v < w =>
        /\ Sound(IsInternalRepEq(v, w), LAMBDA m : m[v] = m[w])
        /\ \A r \in Relations : Sound(IsCmp(v, w, r), LAMBDA m : Holds(r, m[v], m[w]))

\* On a path of the analysis the branches that were taken never contradict
\* each other, and IsTrue, IsFalse and IsZero answer all that follows from
\* them and nothing else.  (VerificationLoop relies on this.)
BranchesExact == callers.pairs = {} =>
    /\ models # {}
    /\ \A v \in Values :
          /\ IsTrue(v) = "true" <=> \A m \in models : m[v] # 0
          /\ IsFalse(v) = "true" <=> \A m \in models : m[v] = 0
          /\ Sound(IsZero(v), LAMBDA m : m[v] = 0)

\* "The value is zero in all possible interpretations" (Values.hpp:95)
IsZeroSound == \A v \in Values : Sound(IsZero(v), LAMBDA m : m[v] = 0)
=============================================================================
