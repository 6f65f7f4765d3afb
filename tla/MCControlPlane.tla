--------------------------- MODULE MCControlPlane ---------------------------
EXTENDS ControlPlane
=============================================================================
