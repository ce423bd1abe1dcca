SPECIFICATION HSpec
CONSTANTS
    MaxConst = 1
    IntConstants = {1}
    GepOffsets = {1}
    Instructions <- LinkInstructions
    MaxVal = 5
    MaxObj = 2
    MaxHandles = 4
    MaxEdges = 2
INVARIANTS
    NoDanglingTarget
    StoredEdgesAgree
PROPERTIES
    ImplementsPointerMemory
\* a path ends at its first error, and the bounds may stop it earlier
CHECK_DEADLOCK FALSE
