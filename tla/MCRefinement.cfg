SPECIFICATION Spec
CONSTANTS
    Fn <- MCFn
    Node <- MCNode
    Op <- MCOp
    Var <- MCVar
    Name <- MCName
    StateVar <- MCStateVar
    NoVar <- MCNoVar
    NoFn <- MCNoFn
    NoName <- MCNoName
    Contract <- Vault
    MaxDepth = 1
    MaxRounds = 1
    XContractDepth = 1
PROPERTIES
    ImplementsSearch
