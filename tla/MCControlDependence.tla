-------------------------- MODULE MCControlDependence --------------------------
EXTENDS ControlDependenceProperties
=============================================================================
