SPECIFICATION Spec
CONSTANTS
    WordBits = 6
    Literals <- SomeLiterals
    Instructions <- Correct
    DirectCalls <- Direct
    ArgumentWidth = 3
    MaxVal = 18
    MaxResults = 2
INVARIANTS
    TypeOK
    ConstantsTrue
    SameIdSameValue
    WrapIsUnknown
\* registers are bounded, and an exception ends the path
CHECK_DEADLOCK FALSE
