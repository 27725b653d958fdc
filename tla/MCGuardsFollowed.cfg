SPECIFICATION Spec
CONSTANTS
    Fn <- SmallFn
    Node <- SmallNode
    Op <- SmallOp
    Var <- SmallVar
    Name <- MCName
    StateVar <- SmallStateVar
    NoVar <- MCNoVar
    NoFn <- MCNoFn
    NoName <- MCNoName
    Contract <- Small
    MaxDepth = 1
    MaxRounds = 0
    XContractDepth = 1
INVARIANTS
    GuardsFollowed
