SPECIFICATION Spec
CONSTANTS
    N = 4
    MaxSons = 2
    MaxAborts = 1
INVARIANTS
    TypeOK
    PostDominatorsExact
    ClosestIsImmediate
    ControlDependenceCorrect
    AbortsGuardWhatFollows
PROPERTIES
    SweepsOnlyShrink
    WalkEnds
