SPECIFICATION Spec
CONSTANTS
    WordBits = 6
    Literals <- SomeLiterals
    Instructions <- Multiplying
    DirectCalls = {}
    ArgumentWidth = 3
    MaxVal = 18
    MaxResults = 1
INVARIANTS
    WrapIsUnknown
\* registers are bounded
CHECK_DEADLOCK FALSE
