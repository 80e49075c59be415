------------------------------ MODULE MCOpLog ------------------------------
EXTENDS OpLog
=============================================================================
