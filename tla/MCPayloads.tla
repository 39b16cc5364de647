----------------------------- MODULE MCPayloads -----------------------------
(* Instances of Payloads for TLC.                                          *)
EXTENDS Payloads
=============================================================================
