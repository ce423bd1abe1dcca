SPECIFICATION Spec
CONSTANTS
    constantContainer <- Constants0And1
    Domain <- AroundZero
    Callers <- AllCallers
INVARIANTS
    BranchesExact
    SortedAnswersSound
    IndexConsistent
    OneConstraintPerPair
\* a branch that is refuted is not taken, and constraints are bounded
CHECK_DEADLOCK FALSE
