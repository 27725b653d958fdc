---------------------------- MODULE MCForwardSlicer ----------------------------
EXTENDS ForwardSlicerProperties, MCContracts
=============================================================================
