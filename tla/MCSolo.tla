------------------------------- MODULE MCSolo -------------------------------
EXTENDS Solo
=============================================================================
