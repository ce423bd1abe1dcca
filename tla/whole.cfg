SPECIFICATION WSpec
CONSTANTS
    Programs = {}
    Modules <- AnyModule
    Terminates <- EndingModules
    MaxVal = 8
    MaxStates = 30
INVARIANTS
    HandsOverWellFormed
    OperandsHaveValues
PROPERTIES
    FollowsModule
    AnalysesToTheEnd
\* the analysis ends when the worklist is empty
CHECK_DEADLOCK FALSE
