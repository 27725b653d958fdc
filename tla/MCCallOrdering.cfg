SPECIFICATION Spec
CONSTANTS
    Node = {a, b, c}
INVARIANTS
    FlagIsExact
