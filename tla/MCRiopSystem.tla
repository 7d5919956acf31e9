------------------------------ MODULE MCRiopSystem ----------------------------
EXTENDS RiopSystem
=============================================================================
