------------------------------- MODULE MCRing -------------------------------
EXTENDS WfsRing
=============================================================================
