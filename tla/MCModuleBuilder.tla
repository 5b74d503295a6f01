-------------------------- MODULE MCModuleBuilder --------------------------
(* Model-checking instance of ModuleBuilder: three threads, two names.     *)
EXTENDS ModuleBuilder, TLC

CONSTANTS t1, t2, t3, n1, n2

MCThread == {t1, t2, t3}
MCName == {n1, n2}

ThreadSymmetry == Permutations(MCThread)
=============================================================================
