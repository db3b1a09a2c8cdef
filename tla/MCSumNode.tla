------------------------------ MODULE MCSumNode ------------------------------
(* Instance of SumNode for TLC.                                             *)
EXTENDS SumNode
=============================================================================
