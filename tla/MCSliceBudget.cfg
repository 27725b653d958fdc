SPECIFICATION Spec
CONSTANTS
    MaxLength = 4
    Caps <- MCCaps
INVARIANTS
    GuardsKeptInOrder
    CapIsSpent
