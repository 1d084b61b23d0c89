---------------------------- MODULE MCWorkqueue -----------------------------
EXTENDS VmkWorkqueue, TLC

Symmetry == Permutations(World)
=============================================================================
