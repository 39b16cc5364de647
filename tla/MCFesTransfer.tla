--------------------------- MODULE MCFesTransfer ---------------------------
(* Instances of FesTransfer for TLC: addresses modulo 16, chunks of 4      *)
(* bytes, sectors of 2.                                                    *)
EXTENDS FesTransfer

MbrTag == 32513          \* 0x7f01
FlashTag == 32768        \* 0x8000
FlashBoot0Tag == 32769   \* 0x8001
NandBoot0Size == 65537   \* 0x10001: carries the finish bit
Tags == {0, MbrTag, FlashTag, FlashBoot0Tag, NandBoot0Size}

(* The (entry, command, byte) combinations the API offers.                 *)
Offered(r) ==
  CASE r.entry = "c" -> ~r.byte
    [] r.entry = "batch" -> r.cmd = "down" /\ ~r.byte
    [] r.entry = "progress" -> r.cmd \in {"down", "up"} /\ ~r.byte
    [] r.entry = "addressed" -> r.cmd = "up"
    [] r.entry = "storage" -> r.cmd \in MediaCmds /\ ~r.byte

Offers(tags, bases, lens) ==
  {r \in [entry : Entries, cmd : Cmds, tag : tags, byte : BOOLEAN,
          base : bases, len : lens] :
     Offered(r) /\ (r.entry # "c" => r.len >= 0)}

MCRequests == {r \in Offers(Tags, {0, 3, 14}, -1..18) : InRange(r)}
MCLongRequests == Offers({MbrTag}, {0}, 15..20)
MCBootRequests == {r \in Offers({FlashBoot0Tag}, {0}, 1..6) : r.entry # "addressed"}
=============================================================================
