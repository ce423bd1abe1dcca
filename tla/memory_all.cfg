SPECIFICATION HSpec
CONSTANTS
    MaxConst = 1
    IntConstants = {1}
    GepOffsets = {1}
    Instructions <- AllInstructions
    MaxVal = 5
    MaxObj = 2
    MaxHandles = 4
    MaxEdges = 1
INVARIANTS
    TypeOK
    HandlesAgree
PROPERTIES
    DenotationStable
    ImplementsPointerMemory
\* a path ends at its first error, and the bounds may stop it earlier
CHECK_DEADLOCK FALSE
