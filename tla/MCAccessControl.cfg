SPECIFICATION AccessSpec
CONSTANTS
    Fn <- RelayFn
    Node <- RelayNode
    Op <- RelayOp
    Var <- RelayVar
    Name <- MCName
    StateVar <- RelayStateVar
    NoVar <- MCNoVar
    NoFn <- MCNoFn
    NoName <- MCNoName
    Contract <- Relay
    MaxDepth = 2
    MaxRounds = 0
    XContractDepth = 1
    Checks <- RelayChecks
    Constructors = {}
INVARIANTS
    CheckedArgumentsTraced
    GuardedHasContext
    OnlyGuardContext
