SPECIFICATION Spec
CONSTANTS
    Fn <- MCFn
    Node <- MCNode
    Op <- MCOp
    Var <- MCVar
    Name <- MCName
    StateVar <- MCStateVar
    NoVar <- MCNoVar
    NoFn <- MCNoFn
    NoName <- MCNoName
    Contract <- Vault
    Depths = {1, 40}
    MaxDepth = 2
    MaxRounds = 1
    XContractDepth = 0
INVARIANTS
    PathIsDependence
    ExactWhenGenerous
