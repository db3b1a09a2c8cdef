--------------------------- MODULE MCProofPipeline ---------------------------
(* Instance of ProofPipeline for TLC.                                       *)
EXTENDS ProofPipeline
=============================================================================
