---------------------------- MODULE MCSliceBudget ----------------------------
EXTENDS SliceBudget

MCCaps == -1..4
=============================================================================
