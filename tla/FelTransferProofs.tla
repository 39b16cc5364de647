------------------------- MODULE FelTransferProofs -------------------------
(***************************************************************************)
(* FelTransfer for every word size, chunk size and request.                *)
(***************************************************************************)
EXTENDS FelTransfer, WordArithmetic, TLAPS

LEMMA RequestFacts ==
  ASSUME TypeOK
  PROVE  /\ req \in Request /\ req.base \in 0..Word-1 /\ req.len \in Int
         /\ req.mode \in Modes /\ req.callback \in BOOLEAN
  BY RequestsAssumption DEF TypeOK, Request

LEMMA ChunkFacts ==
  ASSUME TypeOK, len > 0
  PROVE  ChunkLen \in 1..ChunkMax /\ ChunkLen <= len
  BY ChunkAssumption DEF TypeOK, ChunkLen

(* Addresses wrap into their range, and adding up reduced addresses gives  *)
(* the reduced sum.                                                        *)
LEMMA WordRange == \A x \in Int : x % Word \in 0..Word-1
<1>1. Word \in Nat \ {0}
  BY ChunkAssumption
<1> QED BY <1>1, DivMod, Zenon

LEMMA WordAdd == \A x, y \in Int : ((x % Word) + y) % Word = (x + y) % Word
<1>1. Word \in Nat \ {0}
  BY ChunkAssumption
<1> QED BY <1>1, ModAdd, Zenon

(***************************************************************************)
(* The loop invariant: what was moved and what is left add up to the       *)
(* length, the address is the one of the offset, and the callback was told *)
(* of exactly the chunks that were moved.                                  *)
(***************************************************************************)
LoopInv ==
  /\ off + len = req.len
  /\ addr = (req.base + off) % Word
  /\ pc = "start" => off = 0 /\ ret = "none"
  /\ pc = "loop" => ret = "none" /\ len >= 0
  /\ pc = "done" => ret # "none"
  /\ ret = "error" => len > 0
  /\ ret = "SUCCESS" => len = 0
  /\ req.callback => told = off

(* Type correctness, for every request. *)
THEOREM TypeCorrect == Spec => []TypeOK
<1>1. Init => TypeOK
  BY RequestsAssumption DEF Init, TypeOK, Request
<1>2. TypeOK /\ [Next]_vars => TypeOK'
  <2> SUFFICES ASSUME TypeOK, [Next]_vars PROVE TypeOK'
    OBVIOUS
  <2>1. CASE Enter
    BY <2>1 DEF Enter, Refusal, TypeOK
  <2>2. ASSUME len > 0
        PROVE  Command \in [at : 0..Word-1, off : Nat, len : 1..ChunkMax]
    BY <2>2, ChunkFacts DEF TypeOK, Command
  <2>3. CASE Chunk
    <3>1. ChunkLen \in Nat /\ addr + ChunkLen \in Int
      BY <2>3, ChunkFacts DEF Chunk, TypeOK
    <3>2. (addr + ChunkLen) % Word \in 0..Word-1
      BY <3>1, WordRange, Zenon
    <3>3. cmds' \subseteq [at : 0..Word-1, off : Nat, len : 1..ChunkMax]
      BY <2>2, <2>3 DEF Chunk, TypeOK
    <3> QED BY <2>3, <3>1, <3>2, <3>3 DEF Chunk, TypeOK
  <2>4. CASE ChunkFails
    BY <2>2, <2>4 DEF ChunkFails, TypeOK
  <2>5. CASE Finish
    BY <2>5 DEF Finish, TypeOK
  <2>6. CASE Returned \/ UNCHANGED vars
    BY <2>6 DEF Returned, vars, TypeOK
  <2> QED BY <2>1, <2>3, <2>4, <2>5, <2>6 DEF Next
<1> QED BY <1>1, <1>2, PTL DEF Spec

LEMMA LoopInvariant == Spec => []LoopInv
<1>1. Init => LoopInv
  <2> SUFFICES ASSUME Init PROVE LoopInv
    OBVIOUS
  <2>1. req.base \in 0..Word-1 /\ req.len \in Int
    BY RequestsAssumption DEF Init, Request
  <2>2. (req.base + 0) % Word = req.base
    BY <2>1, ChunkAssumption, SMT
  <2> QED BY <2>1, <2>2 DEF Init, LoopInv
<1>2. TypeOK /\ LoopInv /\ [Next]_vars => LoopInv'
  <2> SUFFICES ASSUME TypeOK, LoopInv, [Next]_vars PROVE LoopInv'
    OBVIOUS
  <2>1. CASE Enter
    <3>1. ret' = "none" => len > 0
      BY <2>1, RequestFacts DEF Enter, Refusal, LoopInv, TypeOK
    <3>2. ret' \notin {"error", "SUCCESS"}
      BY <2>1 DEF Enter, Refusal
    <3>3. pc' = IF ret' = "none" THEN "loop" ELSE "done"
      BY <2>1 DEF Enter
    <3>4. UNCHANGED <<req, len, addr, off, told>>
      BY <2>1 DEF Enter
    <3> QED BY <3>1, <3>2, <3>3, <3>4 DEF LoopInv, TypeOK
  <2>2. CASE Chunk
    <3>1. /\ ChunkLen \in Nat /\ ChunkLen <= len
          /\ off \in Nat /\ len \in Int /\ told \in Nat /\ req.base \in Int /\ req.len \in Int
      BY <2>2, ChunkFacts, RequestFacts DEF Chunk, TypeOK
    <3>2. addr' = (req'.base + off') % Word
      <4>1. req.base + off \in Int /\ ChunkLen \in Int
        BY <3>1
      <4>2. (((req.base + off) % Word) + ChunkLen) % Word = ((req.base + off) + ChunkLen) % Word
        BY <4>1, WordAdd, Zenon
      <4>3. (req.base + off) + ChunkLen = req.base + (off + ChunkLen)
        BY <3>1
      <4> QED BY <2>2, <4>2, <4>3 DEF Chunk, LoopInv
    <3>3. /\ off' + len' = req'.len /\ len' >= 0
          /\ req'.callback => told' = off'
      BY <2>2, <3>1 DEF Chunk, LoopInv
    <3> QED BY <2>2, <3>2, <3>3 DEF Chunk, LoopInv
  <2>3. CASE ChunkFails
    BY <2>3 DEF ChunkFails, LoopInv, TypeOK
  <2>4. CASE Finish
    BY <2>4 DEF Finish, LoopInv, TypeOK
  <2>5. CASE Returned \/ UNCHANGED vars
    BY <2>5 DEF Returned, vars, LoopInv
  <2> QED BY <2>1, <2>2, <2>3, <2>4, <2>5 DEF Next
<1> QED BY <1>1, <1>2, TypeCorrect, PTL DEF Spec

(* The callbacks account for every byte moved and for no other.            *)
THEOREM CallbacksCorrect == Spec => []CallbackAccounts
<1>1. TypeOK /\ LoopInv => CallbackAccounts
  BY RequestFacts DEF TypeOK, LoopInv, CallbackAccounts
<1> QED BY <1>1, TypeCorrect, LoopInvariant, PTL

----------------------------------------------------------------------------
(***************************************************************************)
(* The loop implements RangeTransfer for every length, also one larger     *)
(* than the address space: there the addresses wrap on both sides.         *)
(***************************************************************************)
LEMMA ChunkPlaced ==
  ASSUME TypeOK, LoopInv, len > 0
  PROVE  ChunkLen \in 1..(req.len - off) /\ Command = Range!Piece(ChunkLen)
<1>1. off \in Nat /\ len \in Int /\ req.len \in Int /\ off \div 1 = off
  BY RequestFacts, DivTrivial DEF TypeOK
<1>2. ChunkLen \in 1..(req.len - off)
  BY <1>1, ChunkFacts, ChunkAssumption DEF LoopInv
<1>3. addr = (req.base + off \div 1) % Word
  BY <1>1 DEF LoopInv
<1> QED BY <1>2, <1>3 DEF Command, Range!Piece, Range!Place

THEOREM Implements == Spec => ImplementsRange
<1>1. Init => Range!Init
  BY RequestsAssumption DEF Init, Range!Init, Request
<1>2. TypeOK /\ LoopInv /\ [Next]_vars => [Range!Next]_(Range!vars)
  <2> SUFFICES ASSUME TypeOK, LoopInv, [Next]_vars
               PROVE  Range!Next \/ UNCHANGED Range!vars
    OBVIOUS
  <2>1. CASE Enter
    <3>1. off = 0 /\ ret = "none"
      BY <2>1 DEF Enter, LoopInv
    <3>2. CASE Refusal(req) # "none"
      <4>1. ret' \notin {"none", "SUCCESS"}
        BY <2>1, <3>2 DEF Enter, Refusal
      <4> QED BY <2>1, <3>1, <4>1 DEF Enter, Range!Next, Range!Reject
    <3>3. CASE Refusal(req) = "none"
      BY <2>1, <3>1, <3>3 DEF Enter, Range!vars
    <3> QED BY <3>2, <3>3
  <2>2. CASE Chunk
    <3>1. ChunkLen \in 1..(req.len - off) /\ Command = Range!Piece(ChunkLen) /\ ret = "none"
      BY <2>2, ChunkPlaced DEF Chunk, LoopInv
    <3>2. Range!Move(ChunkLen)
      BY <2>2, <3>1 DEF Chunk, Range!Move
    <3> QED BY <3>1, <3>2 DEF Range!Next
  <2>3. CASE ChunkFails
    <3>1. ChunkLen \in 1..(req.len - off) /\ Command = Range!Piece(ChunkLen) /\ ret = "none"
      BY <2>3, ChunkPlaced DEF ChunkFails, LoopInv
    <3>2. Range!Fail(ChunkLen)
      BY <2>3, <3>1 DEF ChunkFails, Range!Fail
    <3> QED BY <3>1, <3>2 DEF Range!Next
  <2>4. CASE Finish
    <3>1. off = req.len /\ ret = "none"
      BY <2>4, RequestFacts DEF Finish, LoopInv, TypeOK
    <3> QED BY <2>4, <3>1 DEF Finish, Range!Next, Range!Succeed
  <2>5. CASE Returned \/ UNCHANGED vars
    BY <2>5 DEF Returned, vars, Range!vars
  <2> QED BY <2>1, <2>2, <2>3, <2>4, <2>5 DEF Next
<1> QED BY <1>1, <1>2, TypeCorrect, LoopInvariant, PTL DEF Spec, ImplementsRange, Range!Spec

----------------------------------------------------------------------------
(***************************************************************************)
(* No two commands touch the same address.  The commands issued so far     *)
(* stand in the buffer one behind the other, each at the address of its    *)
(* offset; offsets of a range not longer than the address space have       *)
(* different addresses.                                                    *)
(***************************************************************************)
Apart(c, d) == c.off + c.len <= d.off \/ d.off + d.len <= c.off
PlacedInv ==
  /\ \A c \in cmds : c.at = (req.base + c.off) % Word /\ c.off + c.len <= req.len
  /\ pc # "done" => \A c \in cmds : c.off + c.len <= off
  /\ \A c, d \in cmds : c = d \/ Apart(c, d)

(* A command issued by the loop stands behind all earlier ones.            *)
LEMMA PlacedStep ==
  ASSUME TypeOK, LoopInv, PlacedInv, pc = "loop", len > 0,
         req' = req, cmds' = cmds \cup {Command}, pc' = "done" \/ off' = off + ChunkLen
  PROVE  PlacedInv'
<1>1. /\ off \in Nat /\ ChunkLen \in Nat /\ off + ChunkLen <= req.len
      /\ \A c \in cmds : c.off \in Nat /\ c.len \in Nat
  BY ChunkFacts, RequestFacts, ChunkAssumption DEF TypeOK, LoopInv
<1>2. Command.at = (req.base + Command.off) % Word /\ Command.off = off /\ Command.len = ChunkLen
  BY DEF Command, LoopInv
<1>3. \A c \in cmds : c.off + c.len <= off
  BY DEF PlacedInv
<1>4. \A c \in cmds' : c.at = (req'.base + c.off) % Word /\ c.off + c.len <= req'.len
  BY <1>1, <1>2 DEF PlacedInv
<1>5. pc' # "done" => \A c \in cmds' : c.off + c.len <= off'
  BY <1>1, <1>2, <1>3
<1>6. \A c, d \in cmds' : c = d \/ Apart(c, d)
  BY <1>2, <1>3 DEF PlacedInv, Apart
<1> QED BY <1>4, <1>5, <1>6 DEF PlacedInv, Apart

LEMMA PlacedInvariant == Spec => []PlacedInv
<1>1. Init => PlacedInv
  BY DEF Init, PlacedInv
<1>2. TypeOK /\ LoopInv /\ PlacedInv /\ [Next]_vars => PlacedInv'
  <2> SUFFICES ASSUME TypeOK, LoopInv, PlacedInv, [Next]_vars PROVE PlacedInv'
    OBVIOUS
  <2>1. CASE Enter
    BY <2>1 DEF Enter, PlacedInv, Apart
  <2>2. CASE Chunk
    BY <2>2, PlacedStep DEF Chunk
  <2>3. CASE ChunkFails
    BY <2>3, PlacedStep DEF ChunkFails
  <2>4. CASE Finish
    BY <2>4 DEF Finish, PlacedInv, Apart
  <2>5. CASE Returned \/ UNCHANGED vars
    BY <2>5 DEF Returned, vars, PlacedInv, Apart
  <2> QED BY <2>1, <2>2, <2>3, <2>4, <2>5 DEF Next
<1> QED BY <1>1, <1>2, TypeCorrect, LoopInvariant, PTL DEF Spec

(* Two commands, one behind the other, of a range that fits.               *)
LEMMA BehindApart ==
  ASSUME TypeOK, PlacedInv, req.len <= Word, NEW c \in cmds, NEW d \in cmds,
         c.off + c.len <= d.off
  PROVE  Touched(c) \cap Touched(d) = {}
<1> SUFFICES ASSUME NEW k \in 0..c.len-1, NEW l \in 0..d.len-1,
                    (c.at + k) % Word = (d.at + l) % Word
             PROVE  FALSE
  BY DEF Touched
<1>1. /\ c.off \in Nat /\ c.len \in Nat /\ d.off \in Nat /\ d.len \in Nat
      /\ req.base \in Int /\ req.len \in Int /\ Word \in Nat \ {0}
  BY RequestFacts, ChunkAssumption DEF TypeOK
<1>2. d.off + d.len <= req.len
  BY DEF PlacedInv
<1> DEFINE x == (req.base + c.off) + k
           y == (req.base + d.off) + l
<1>3. x \in Int /\ y \in Int /\ x < y /\ y - x < Word
  BY <1>1, <1>2
<1>4. (c.at + k) % Word = x % Word /\ (d.at + l) % Word = y % Word
  <2>1. req.base + c.off \in Int /\ req.base + d.off \in Int /\ k \in Int /\ l \in Int
    BY <1>1
  <2>2. /\ (((req.base + c.off) % Word) + k) % Word = ((req.base + c.off) + k) % Word
        /\ (((req.base + d.off) % Word) + l) % Word = ((req.base + d.off) + l) % Word
    BY <2>1, WordAdd, Zenon
  <2>3. c.at = (req.base + c.off) % Word /\ d.at = (req.base + d.off) % Word
    BY DEF PlacedInv
  <2> QED BY <2>2, <2>3
<1> HIDE DEF x, y
<1> QED BY <1>1, <1>3, <1>4, ModInjective

(* NoOverlap for every request whose range fits into the address space.    *)
THEOREM NothingOverlaps == Spec => []NoOverlap
<1>1. TypeOK /\ PlacedInv => NoOverlap
  <2> SUFFICES ASSUME TypeOK, PlacedInv, req.len <= Word,
                      NEW c \in cmds, NEW d \in cmds, c # d
               PROVE  Touched(c) \cap Touched(d) = {}
    BY DEF NoOverlap
  <2>1. Apart(c, d)
    BY DEF PlacedInv
  <2>2. CASE c.off + c.len <= d.off
    BY <2>2, BehindApart
  <2>3. CASE d.off + d.len <= c.off
    <3>1. Touched(d) \cap Touched(c) = {}
      BY <2>3, BehindApart
    <3> QED BY <3>1
  <2> QED BY <2>1, <2>2, <2>3 DEF Apart
<1> QED BY <1>1, TypeCorrect, PlacedInvariant, PTL
=============================================================================
