------------------------ MODULE MCExecutionLifecycle ------------------------
(***************************************************************************)
(* Small instances of ExecutionLifecycle for TLC.                          *)
(***************************************************************************)
EXTENDS ExecutionLifecycle, TLC

CONSTANTS e1, e2, k1

Symmetry == Permutations(Executions)
=============================================================================
