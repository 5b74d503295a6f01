------------------------------- MODULE MCDFG -------------------------------
(* Model-checking instance of DFG: model values for values and blocks.     *)
EXTENDS DFG, TLC

CONSTANTS v1, v2, b1, b2

MCValue == {v1, v2}
MCBlock == {b1, b2}

Symmetry == Permutations(MCValue) \cup Permutations(MCBlock)
=============================================================================
