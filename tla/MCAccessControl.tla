---------------------------- MODULE MCAccessControl ----------------------------
EXTENDS AccessControlProperties, MCContracts
=============================================================================
