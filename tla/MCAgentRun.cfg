SPECIFICATION Spec
CONSTANTS
    NodeId <- MCNodeId
    Name <- MCName
    Version <- MCVersion
    Engine <- MCEngine
    Synthetic <- MCSynthetic
    Replies <- MCReplies
    MaxCalls = 2
CHECK_DEADLOCK FALSE
INVARIANTS
    RunsIsolated
    NothingLeft
    VerdictEarned
PROPERTIES
    CallEnds
