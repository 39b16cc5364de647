--------------------------- MODULE MCFelTransfer ---------------------------
(* An instance of FelTransfer for TLC: addresses modulo 16, chunks of 4.   *)
EXTENDS FelTransfer

MCRequests == [base : {0, 3, 7, 14}, len : -1..21, mode : Modes, callback : BOOLEAN]
=============================================================================
