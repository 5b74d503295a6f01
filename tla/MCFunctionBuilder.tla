-------------------------- MODULE MCFunctionBuilder --------------------------
(* Two blocks as model values; they are interchangeable.                 *)
EXTENDS FunctionBuilder, TLC

CONSTANTS b1, b2

MCBlock == {b1, b2}

BlockSymmetry == Permutations(MCBlock)
=============================================================================
