------------------------------- MODULE MCBert -------------------------------
EXTENDS WfsBert
=============================================================================
