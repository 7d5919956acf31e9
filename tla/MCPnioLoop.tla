------------------------------ MODULE MCPnioLoop ------------------------------
EXTENDS PnioLoop
=============================================================================
