------------------------------- MODULE MCRaps -------------------------------
EXTENDS WfsRaps, TLC
=============================================================================
