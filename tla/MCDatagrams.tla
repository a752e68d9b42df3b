---------------------------- MODULE MCDatagrams ----------------------------
EXTENDS Datagrams, TLC

CONSTANTS i1, i2

MCIds == {i1, i2}
Symm == Permutations(MCIds)
MCHdrLens == [f \in {4, 6} |-> IF f = 4 THEN {1} ELSE {2, 3}]
=============================================================================
