--------------------------- MODULE MCRuntimeReload ---------------------------
(* Model-checking instances of RuntimeReload: two processes that share one file *)
(* (RuntimeReload.cfg), one process with two files (RuntimeReloadFiles.cfg) and *)
(* one process with one file (RuntimeReloadConfig.cfg).                         *)
EXTENDS RuntimeReload, TLC

CONSTANTS p1, p2, f1, f2

Symmetry == Permutations(Procs)
=============================================================================
