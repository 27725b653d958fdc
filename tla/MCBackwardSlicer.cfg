SPECIFICATION Spec
CONSTANTS
    Fn <- MCFn
    Node <- MCNode
    Op <- MCOp
    Var <- MCVar
    Name <- MCName
    StateVar <- MCStateVar
    NoVar <- MCNoVar
    NoFn <- MCNoFn
    NoName <- MCNoName
    Contract <- Vault
    MaxDepth = 2
    MaxRounds = 2
    XContractDepth = 1
INVARIANTS
    TypeOK
    DefinitionsFollowed
    CalleesEntered
    CallersEntered
    NothingDangles
    GuardsNeverDropped
    WritersStitched
    CallsHandledBeforeStitching
    OnlyDependences
PROPERTIES
    ReasonsOnlyStrengthen
    Termination
