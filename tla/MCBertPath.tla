----------------------------- MODULE MCBertPath ------------------------------
EXTENDS WfsBertPath, TLC
PathSymmetry == Permutations(Port)
=============================================================================
