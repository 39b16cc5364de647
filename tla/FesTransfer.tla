---------------------------- MODULE FesTransfer ----------------------------
(***************************************************************************)
(* The 64 KB chunk loops over sunxi_usb_fes_xfer: sunxi_efex_fes_up_down   *)
(* of the C library and the two loops the Rust binding writes out again,   *)
(* fes_down_batch and fes_up_down_with_progress.  They differ in the width *)
(* of the remaining count and in how they choose between byte and sector   *)
(* addresses.                                                              *)
(***************************************************************************)
EXTENDS Integers

CONSTANTS
  Word,        \* 2^32: addresses and 32-bit counts are taken modulo Word
  ChunkMax,    \* EFEX_CODE_MAX_SIZE
  SectorSize,  \* 512
  Requests     \* the transfers an application asks for

Entries == {"c", "batch", "progress", "addressed", "storage"}
Cmds == {"down", "up", "nand", "spinand", "nor"}
MediaCmds == {"nand", "spinand", "nor"}
FinishTag == 65536      \* SUNXI_EFEX_TRANS_FINISH_TAG, bit 16
DataTypeBits == 32768   \* SUNXI_EFEX_DATA_TYPE_MASK is the 15 bits below

Request == [entry : Entries, cmd : Cmds, tag : Nat, byte : BOOLEAN,
            base : 0..Word-1, len : Int]

ASSUME ChunkAssumption ==
  /\ SectorSize \in Nat \ {0} /\ ChunkMax \in Nat \ {0} /\ Word \in Nat \ {0}
  /\ ChunkMax % SectorSize = 0
(* A Rust length is a usize, only the C entry points take a signed one.    *)
ASSUME RequestsAssumption ==
  /\ Requests \subseteq Request
  /\ \A r \in Requests : r.entry # "c" => r.len >= 0

VARIABLES
  req,       \* the arguments of the call
  pc,        \* "start", "loop", "done"
  remain, addr, off, flags,  \* remain_data, addr_cur, buff_ptr - buf, current_type
  xfers,     \* ghost: the transfer headers issued, in no particular order
  ret        \* the result, "none" while running

vars == <<req, pc, remain, addr, off, flags, xfers, ret>>

IsDataType(tag) == tag % DataTypeBits # 0

(* The C loop looks at tag and command, fes_down_batch at the tag only;    *)
(* the loop with progress is told by its wrapper, which derives it from    *)
(* the tag, takes it from its caller, or is the storage one.               *)
ByteAddressed(r) ==
  CASE r.entry = "c" -> IsDataType(r.tag) \/ r.cmd \in MediaCmds
    [] r.entry \in {"batch", "progress"} -> IsDataType(r.tag)
    [] r.entry = "addressed" -> r.byte
    [] r.entry = "storage" -> TRUE

AddrUnit(r) == IF ByteAddressed(r) THEN 1 ELSE SectorSize
(* Mutant: every address advances by sectors.                              *)
AdvanceSectors(r, n) == n \div SectorSize
Advance(r, n) == IF ByteAddressed(r) THEN n ELSE n \div SectorSize

(* `(uint32_t) len' in C, `len as u32' with progress, usize in the batch.  *)
(* Mutant: the batch count is 32 bits wide too.                            *)
Remaining32(r) == r.len % Word
Remaining(r) == IF r.entry = "batch" THEN r.len ELSE r.len % Word

(* Only the loop with progress accepts an empty buffer.                    *)
Rejected(r) == r.len <= 0 /\ r.entry \in {"c", "batch"}

SetFinish(t) == IF (t \div FinishTag) % 2 = 1 THEN t ELSE t + FinishTag

MinOf(a, b) == IF a < b THEN a ELSE b
(* Mutant: a chunk is not capped.                                          *)
ChunkLenUncapped == remain
ChunkLen == MinOf(remain, ChunkMax)

Init ==
  /\ req \in Requests
  /\ pc = "start"
  /\ remain = 0 /\ addr = req.base /\ off = 0 /\ flags = req.tag
  /\ xfers = {} /\ ret = "none"

Enter ==
  /\ pc = "start"
  /\ IF Rejected(req)
       THEN pc' = "done" /\ ret' = "INVALID_PARAM" /\ UNCHANGED remain
       ELSE pc' = "loop" /\ remain' = Remaining(req) /\ UNCHANGED ret
  /\ UNCHANGED <<req, addr, off, flags, xfers>>

(* One iteration: the chunk is taken off the count first, so a zero count  *)
(* marks the last one, and the header goes out with the address before the *)
(* advance.  fes_down_batch starts its flags afresh in every iteration,    *)
(* the other loops accumulate: the value sent is the same.                 *)
(* Mutant: the finish tag goes with a short chunk, not with the last one.  *)
XferShortEnds(n) == [at |-> addr, off |-> off, len |-> n,
                     flags |-> IF n < ChunkMax THEN SetFinish(flags) ELSE flags]

Xfer(n) == [at |-> addr, off |-> off, len |-> n,
            flags |-> IF remain = n THEN SetFinish(flags) ELSE flags]

Chunk ==
  /\ pc = "loop" /\ remain > 0
  /\ LET n == ChunkLen IN
     /\ xfers' = xfers \cup {Xfer(n)}
     /\ flags' = Xfer(n).flags
     /\ remain' = remain - n
     /\ addr' = (addr + Advance(req, n)) % Word
     /\ off' = off + n
  /\ UNCHANGED <<req, pc, ret>>

(* The transfer fails: the loop ends there.  (The C loop has advanced its  *)
(* locals by then; nobody reads them again.)                               *)
ChunkFails ==
  /\ pc = "loop" /\ remain > 0
  /\ xfers' = xfers \cup {Xfer(ChunkLen)}
  /\ pc' = "done" /\ ret' = "error"
  /\ UNCHANGED <<req, remain, addr, off, flags>>

(* Mutant: the loop does not end at a zero count.                          *)
FinishSpins == pc = "loop" /\ remain = 0 /\ UNCHANGED vars

Finish ==
  /\ pc = "loop" /\ remain = 0
  /\ pc' = "done" /\ ret' = "SUCCESS"
  /\ UNCHANGED <<req, remain, addr, off, flags, xfers>>

Returned == pc = "done" /\ UNCHANGED vars

Next == Enter \/ Chunk \/ ChunkFails \/ Finish \/ Returned

Spec == Init /\ [][Next]_vars
FairSpec == Spec /\ WF_vars(Next)

----------------------------------------------------------------------------
(* Type invariant. *)
TypeOK ==
  /\ req \in Requests
  /\ pc \in {"start", "loop", "done"}
  /\ remain \in Nat /\ addr \in 0..Word-1 /\ off \in Nat /\ flags \in Nat
  /\ xfers \subseteq [at : 0..Word-1, off : Nat, len : 1..ChunkMax, flags : Nat]
  /\ ret \in {"none", "INVALID_PARAM", "error", "SUCCESS"}

(* The lengths whose remaining count is not truncated.                     *)
InRange(r) == r.len < Word \/ r.entry = "batch"

(***************************************************************************)
(* The incremental address of every loop is the address of the buffer      *)
(* offset it stands at: the loops implement RangeTransfer.  For sector     *)
(* addresses this needs the chunk to be a whole number of sectors          *)
(* (efex-fes.c 83-114, lib.rs 542-588 and 758-801).                        *)
(***************************************************************************)
PieceOf(x) == [at |-> x.at, off |-> x.off, len |-> x.len]
Range == INSTANCE RangeTransfer WITH
           Units <- {1, SectorSize},
           req <- [base |-> req.base, len |-> req.len, unit |-> AddrUnit(req)],
           moved <- off,
           pieces <- {PieceOf(x) : x \in xfers},
           outcome <- CASE ret = "none" -> "running"
                        [] ret = "SUCCESS" -> "success"
                        [] OTHER -> "error"
ImplementsRange == Range!Spec

(* The device is told that the data ends exactly by the transfer that      *)
(* carries the last byte (efex-fes.c 88-91).                               *)
Finishes(x) == (x.flags \div FinishTag) % 2 = 1
FinishMarksTheEnd ==
  InRange(req) /\ (req.tag \div FinishTag) % 2 # 1 =>
    \A x \in xfers : Finishes(x) <=> x.off + x.len = req.len

(* No two transfers of a call touch the same device address, as long as    *)
(* the range is not larger than the address space.                         *)
Touched(x) == {(x.at + k \div AddrUnit(req)) % Word : k \in 0..x.len-1}
NoOverlap ==
  InRange(req) /\ req.len <= Word * AddrUnit(req) =>
    \A x, y \in xfers : x = y \/ Touched(x) \cap Touched(y) = {}

(* The call returns.                                                       *)
Returns == <>(pc = "done")

(***************************************************************************)
(* What the headers and the binding's documentation promise and the code   *)
(* does not keep.                                                          *)
(***************************************************************************)
(* efex-fes.h: `len' is the data length, 0 is success: on success the      *)
(* whole buffer was moved.                                                 *)
SuccessMeansAll == ret = "SUCCESS" => off = req.len

(* lib.rs: the eMMC boot0/boot1 tags are served by a routine that takes a  *)
(* SECTOR address; efex-fes.h names FES_UP as the command to use them      *)
(* with.                                                                   *)
EmmcBootTags == {32769, 32770}   \* 0x8001, 0x8002
BootTagsUseSectors ==
  req.cmd = "up" /\ req.tag \in EmmcBootTags =>
    \A x \in xfers : x.at = (req.base + x.off \div SectorSize) % Word
=============================================================================
