--------------------------- MODULE MCDependencyPaths ---------------------------
EXTENDS DependencyPathsProperties, MCContracts
=============================================================================
