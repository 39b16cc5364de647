--------------------------- MODULE MCEfexSession ---------------------------
(* Instances of EfexSession for TLC.                                       *)
EXTENDS EfexSession

MCAllOps == AllOps
MCSwitchOps == {"init", "fes_switch"}
MCFelOps == FelOps \cup {"init"}
MCReadOps == {"init", "fel_read"}
MCFesOps == {"init", "fes_query", "fes_down", "fes_tool_mode"}
=============================================================================
