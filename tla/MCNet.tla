------------------------------- MODULE MCNet --------------------------------
EXTENDS WfsNet
=============================================================================
