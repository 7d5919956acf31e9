---------------------------- MODULE MCModbusCritical ---------------------------
EXTENDS ModbusCritical
=============================================================================
