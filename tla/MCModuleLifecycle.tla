------------------------- MODULE MCModuleLifecycle -------------------------
(* Model-checking instance of ModuleLifecycle: three threads, two names.   *)
EXTENDS ModuleLifecycle, TLC

CONSTANTS t1, t2, t3, n1, n2

MCThread == {t1, t2, t3}
MCName == {n1, n2}

ThreadSymmetry == Permutations(MCThread)
=============================================================================
