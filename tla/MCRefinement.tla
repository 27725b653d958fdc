----------------------------- MODULE MCRefinement -----------------------------
EXTENDS BackwardSlicerRefinement, MCContracts
=============================================================================
