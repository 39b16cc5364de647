---------------------------- MODULE MCFlashFlow -----------------------------
(* Instances of FlashFlow for TLC.                                         *)
EXTENDS FlashFlow
=============================================================================
