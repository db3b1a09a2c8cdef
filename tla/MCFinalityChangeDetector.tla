---------------------- MODULE MCFinalityChangeDetector ----------------------
(* Instance of FinalityChangeDetector for TLC.                              *)
EXTENDS FinalityChangeDetector
CONSTANTS MaxSlot
MCSlot == 0..MaxSlot
=============================================================================
