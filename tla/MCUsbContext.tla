---------------------------- MODULE MCUsbContext ----------------------------
(* Instances of UsbContext for TLC.                                        *)
EXTENDS UsbContext, TLC

(* Places are interchangeable, and so are contexts.                        *)
MCSymmetry == Permutations(Ids) \cup Permutations(Ctxs)
=============================================================================
