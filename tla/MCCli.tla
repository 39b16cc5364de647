------------------------------- MODULE MCCli -------------------------------
(* Instances of Cli for TLC.                                               *)
EXTENDS Cli

MCAllCmds == AllCmds
=============================================================================
