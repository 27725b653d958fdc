SPECIFICATION Spec
CONSTANTS
    Fn <- SmallFn
    Node <- SmallNode
    Op <- SmallOp
    Var <- SmallVar
    Name <- MCName
    StateVar <- SmallStateVar
    NoVar <- MCNoVar
    NoFn <- MCNoFn
    NoName <- MCNoName
    Contract <- Small
    Depths = {1}
    MaxDepth = 2
    MaxRounds = 1
    XContractDepth = 0
INVARIANT CompleteWithinBudget
