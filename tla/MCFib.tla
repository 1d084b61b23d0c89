-------------------------------- MODULE MCFib --------------------------------
EXTENDS WfsFib, TLC

CONSTANTS ws1, ws2

(* Five addresses, one more than the table has room for, and two             *)
(* workstations, which the table only ever compares.                         *)
MCKey   == 1..5
MCWfsId == {ws1, ws2}
Symmetry == Permutations(MCWfsId)
=============================================================================
