------------------------------ MODULE MCMemory ------------------------------
EXTENDS Memory
============================================================================
