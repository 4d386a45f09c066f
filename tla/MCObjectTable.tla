---------------------------- MODULE MCObjectTable ----------------------------
EXTENDS ObjectTable, TLC
CONSTANTS i1, i2, k1, k2
Symmetry == Permutations({k1, k2})
KnownDef == [s \in Sides |-> IF s = "client" THEN {i1, i2} ELSE {i1}]
=============================================================================
