SPECIFICATION Spec
CONSTANTS
    constantContainer <- Constants0And1
    Domain <- AroundZero
    Callers <- SortingCallers
INVARIANTS
    IsZeroSound
\* a branch that is refuted is not taken, and constraints are bounded
CHECK_DEADLOCK FALSE
