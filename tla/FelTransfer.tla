---------------------------- MODULE FelTransfer ----------------------------
(***************************************************************************)
(* The chunk loop shared by sunxi_efex_fel_read, _write, _read_cb and      *)
(* _write_cb.  One chunk is one FEL command (EfexSession has its legs).    *)
(* The loop runs on a signed 64-bit length; only the address is 32 bits    *)
(* wide and wraps.                                                         *)
(***************************************************************************)
EXTENDS Integers

CONSTANTS
  Word,      \* 2^32
  ChunkMax,  \* EFEX_CODE_MAX_SIZE
  Requests   \* the transfers an application asks for

Modes == {"NULL", "FEL", "SRV"}
Request == [base : 0..Word-1, len : Int, mode : Modes, callback : BOOLEAN]

ASSUME ChunkAssumption == ChunkMax \in Nat \ {0} /\ Word \in Nat \ {0}
ASSUME RequestsAssumption == Requests \subseteq Request

VARIABLES
  req,             \* the arguments of the call and ctx->resp.mode
  pc,              \* "start", "loop", "done"
  len, addr, off,  \* len, addr, and how far buf has moved
  cmds,            \* ghost: the FEL commands issued
  told,            \* ghost: the sum of what the callback was told
  ret              \* the result, "none" while running

vars == <<req, pc, len, addr, off, cmds, told, ret>>

Init ==
  /\ req \in Requests
  /\ pc = "start" /\ len = req.len /\ addr = req.base /\ off = 0
  /\ cmds = {} /\ told = 0 /\ ret = "none"

Refusal(r) == IF r.mode # "FEL" THEN "INVALID_DEVICE_MODE"
              ELSE IF r.len <= 0 THEN "INVALID_PARAM" ELSE "none"

Enter ==
  /\ pc = "start"
  /\ ret' = Refusal(req)
  /\ pc' = IF ret' = "none" THEN "loop" ELSE "done"
  /\ UNCHANGED <<req, len, addr, off, cmds, told>>

(* Mutant: a chunk is not capped.                                          *)
ChunkLenUncapped == len
ChunkLen == IF len > ChunkMax THEN ChunkMax ELSE len
(* Mutant: buf stays where it was.                                         *)
CommandSameBuffer == [at |-> addr, off |-> 0, len |-> ChunkLen]
Command == [at |-> addr, off |-> off, len |-> ChunkLen]

(* Mutant: the address is not advanced.                                    *)
ChunkSameAddress ==
  /\ pc = "loop" /\ len > 0
  /\ cmds' = cmds \cup {Command}
  /\ told' = IF req.callback THEN told + ChunkLen ELSE told
  /\ off' = off + ChunkLen
  /\ len' = len - ChunkLen
  /\ UNCHANGED <<req, pc, addr, ret>>

Chunk ==
  /\ pc = "loop" /\ len > 0
  /\ cmds' = cmds \cup {Command}
  /\ told' = IF req.callback THEN told + ChunkLen ELSE told
  /\ addr' = (addr + ChunkLen) % Word
  /\ off' = off + ChunkLen
  /\ len' = len - ChunkLen
  /\ UNCHANGED <<req, pc, ret>>

(* Mutant: the callback is called before the result is looked at.          *)
ChunkFailsTold ==
  /\ pc = "loop" /\ len > 0
  /\ cmds' = cmds \cup {Command}
  /\ told' = told + ChunkLen
  /\ pc' = "done" /\ ret' = "error"
  /\ UNCHANGED <<req, len, addr, off>>

ChunkFails ==
  /\ pc = "loop" /\ len > 0
  /\ cmds' = cmds \cup {Command}
  /\ pc' = "done" /\ ret' = "error"
  /\ UNCHANGED <<req, len, addr, off, told>>

(* Mutant: the loop does not end at a zero count.                          *)
FinishSpins == pc = "loop" /\ len <= 0 /\ UNCHANGED vars

Finish ==
  /\ pc = "loop" /\ len <= 0
  /\ pc' = "done" /\ ret' = "SUCCESS"
  /\ UNCHANGED <<req, len, addr, off, cmds, told>>

Returned == pc = "done" /\ UNCHANGED vars

Next == Enter \/ Chunk \/ ChunkFails \/ Finish \/ Returned

Spec == Init /\ [][Next]_vars
FairSpec == Spec /\ WF_vars(Next)

----------------------------------------------------------------------------
(* Type invariant. *)
TypeOK ==
  /\ req \in Requests
  /\ pc \in {"start", "loop", "done"}
  /\ len \in Int /\ addr \in 0..Word-1 /\ off \in Nat /\ told \in Nat
  /\ cmds \subseteq [at : 0..Word-1, off : Nat, len : 1..ChunkMax]
  /\ ret \in {"none", "INVALID_DEVICE_MODE", "INVALID_PARAM", "error", "SUCCESS"}

(* The loop moves the caller's buffer to or from consecutive addresses,    *)
(* one byte per address, and succeeds only when all of it was moved        *)
(* (efex-fel.c 87-99, 115-127, 144-159, 176-191).                          *)
Range == INSTANCE RangeTransfer WITH
           Units <- {1},
           req <- [base |-> req.base, len |-> req.len, unit |-> 1],
           moved <- off,
           pieces <- cmds,
           outcome <- CASE ret = "none" -> "running"
                        [] ret = "SUCCESS" -> "success"
                        [] OTHER -> "error"
ImplementsRange == Range!Spec

(* The callbacks account for every byte moved and for no byte of a chunk   *)
(* that failed; a caller that is told of the whole length got SUCCESS or   *)
(* is about to (efex-fel.c 148-157, 180-189).                              *)
CallbackAccounts ==
  req.callback => /\ told = off
                  /\ ret = "error" => told < req.len
                  /\ ret = "SUCCESS" => told = req.len

(* No two commands of a call touch the same device address, as long as the *)
(* range is not larger than the address space.                             *)
Touched(c) == {(c.at + k) % Word : k \in 0..c.len-1}
NoOverlap ==
  req.len <= Word => \A c, d \in cmds : c = d \/ Touched(c) \cap Touched(d) = {}

(* The call returns.                                                       *)
Returns == <>(pc = "done")
=============================================================================
