-------------------------- MODULE MCExecutionProxy --------------------------
(* Instance of ExecutionProxy for TLC.                                      *)
EXTENDS ExecutionProxy
=============================================================================
