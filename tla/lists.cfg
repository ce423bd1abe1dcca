SPECIFICATION CSpec
CONSTANTS
    MaxConst = 1
    IntConstants = {1}
    GepOffsets = {1}
    Instructions <- ListInstructions
    MaxVal = 6
    MaxObj = 2
    MaxSegment = 3
    MaxHandles = 5
    MaxEdges = 2
INVARIANTS
    NoDanglingTarget
    StoredEdgesAgree
    PlotShowsAll
PROPERTIES
    SegmentsReplaceLists
    PlotEnds
\* a path ends at its first error, and the bounds may stop it earlier
CHECK_DEADLOCK FALSE
