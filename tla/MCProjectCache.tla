---------------------------- MODULE MCProjectCache ----------------------------
EXTENDS ProjectCacheProperties
=============================================================================
