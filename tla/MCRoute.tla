------------------------------ MODULE MCRoute -------------------------------
EXTENDS Route
=============================================================================
