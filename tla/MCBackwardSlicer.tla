--------------------------- MODULE MCBackwardSlicer ---------------------------
EXTENDS BackwardSlicerProperties, MCContracts
=============================================================================
