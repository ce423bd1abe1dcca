SPECIFICATION Spec
CONSTANTS
    WordBits = 6
    Literals <- SomeLiterals
    Instructions <- SignExtending
    DirectCalls = {}
    ArgumentWidth = 3
    MaxVal = 18
    MaxResults = 1
INVARIANTS
    ConstantsTrue
\* registers are bounded
CHECK_DEADLOCK FALSE
