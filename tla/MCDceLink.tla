------------------------------ MODULE MCDceLink ------------------------------
EXTENDS DceLink
=============================================================================
