------------------------------ MODULE MCSdioBus ------------------------------
EXTENDS SdioBus
=============================================================================
