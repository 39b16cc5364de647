--------------------------- MODULE MCBulkTransfer ---------------------------
(* Instances of BulkTransfer for TLC.                                      *)
EXTENDS BulkTransfer
=============================================================================
