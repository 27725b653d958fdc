---------------------------- MODULE MCCallOrdering ----------------------------
EXTENDS CallOrdering
=============================================================================
