SPECIFICATION FFairSpec
CONSTANTS
    Programs <- AnyProgram
    MaxVal = 7
    MaxStates = 40
    Terminates <- Terminating
INVARIANTS
    TypeOK
    NothingLost
    DepthFirst
    OnePathPerRun
PROPERTIES
    FollowsRun
    FollowsToTheEnd
\* the analysis ends when the worklist is empty
CHECK_DEADLOCK FALSE
