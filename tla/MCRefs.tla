------------------------------- MODULE MCRefs -------------------------------
\* Instances of Refs for TLC.
EXTENDS Refs
=============================================================================
