SPECIFICATION Spec
CONSTANTS
    Modules <- SmallModules
INVARIANTS
    TypeOK
    ParsedOnce
    NoBranchLost
PROPERTIES
    ParsesTheModule
\* the parser ends when nothing is left
CHECK_DEADLOCK FALSE
