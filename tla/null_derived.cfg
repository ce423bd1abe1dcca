SPECIFICATION HSpec
CONSTANTS
    MaxConst = 2
    IntConstants = {1}
    GepOffsets = {0, 1}
    Instructions <- AddressInstructions
    MaxVal = 9
    MaxObj = 2
    MaxHandles = 5
    MaxEdges = 2
INVARIANTS
    NullDerivedAddress
\* a path ends at its first error, and the bounds may stop it earlier
CHECK_DEADLOCK FALSE
