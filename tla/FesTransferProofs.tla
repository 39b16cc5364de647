------------------------- MODULE FesTransferProofs -------------------------
(***************************************************************************)
(* FesTransfer for every word size, chunk size, sector size and request.   *)
(***************************************************************************)
EXTENDS FesTransfer, WordArithmetic, TLAPS

(* What a request is made of, for the leaves below.                        *)
LEMMA RequestFacts ==
  ASSUME TypeOK
  PROVE  /\ req \in Request /\ req.base \in 0..Word-1 /\ req.len \in Int
         /\ req.tag \in Nat /\ req.entry \in Entries
         /\ AddrUnit(req) \in {1, SectorSize} /\ AddrUnit(req) \in Nat \ {0}
         /\ ByteAddressed(req) \in BOOLEAN
<1>1. req \in Request
  BY RequestsAssumption DEF TypeOK
<1>2. ByteAddressed(req) \in BOOLEAN
  BY <1>1, Zenon DEF ByteAddressed, Request, IsDataType, MediaCmds, Entries
<1>3. AddrUnit(req) \in {1, SectorSize}
  BY DEF AddrUnit
<1> QED BY <1>1, <1>2, <1>3, ChunkAssumption DEF Request

(* The last chunk is what remains, every other is a full one.              *)
LEMMA ChunkFacts ==
  ASSUME TypeOK, remain > 0
  PROVE  /\ ChunkLen \in 1..ChunkMax /\ ChunkLen <= remain
         /\ ChunkLen < remain => ChunkLen = ChunkMax
  BY ChunkAssumption DEF TypeOK, ChunkLen, MinOf

LEMMA AdvanceFacts ==
  ASSUME TypeOK, NEW n \in Nat
  PROVE  Advance(req, n) = n \div AddrUnit(req) /\ Advance(req, n) \in Nat
<1>1. CASE ByteAddressed(req)
  BY <1>1, DivTrivial DEF Advance, AddrUnit
<1>2. CASE ~ByteAddressed(req)
  BY <1>2, ChunkAssumption, SMT DEF Advance, AddrUnit
<1> QED BY <1>1, <1>2

LEMMA NatInt == \A n \in Nat : n \in Int
  BY SMT

LEMMA WordRange == \A x \in Int : x % Word \in 0..Word-1
<1>1. Word \in Nat \ {0}
  BY ChunkAssumption
<1> QED BY <1>1, DivMod, Zenon

LEMMA FinishBit ==
  ASSUME NEW t \in Nat
  PROVE  /\ SetFinish(t) \in Nat
         /\ (SetFinish(t) \div FinishTag) % 2 = 1
  BY SMT DEF SetFinish, FinishTag

----------------------------------------------------------------------------
(* Type correctness: the locals stay in their ranges, for every request.   *)
THEOREM TypeCorrect == Spec => []TypeOK
<1>1. Init => TypeOK
  BY RequestsAssumption DEF Init, TypeOK, Request
<1>2. TypeOK /\ [Next]_vars => TypeOK'
  <2> SUFFICES ASSUME TypeOK, [Next]_vars PROVE TypeOK'
    OBVIOUS
  <2> USE RequestFacts
  <2>1. CASE Enter
    <3>1. ~Rejected(req) => Remaining(req) \in Nat
      <4>1. req.len % Word \in Nat
        BY WordRange
      <4>2. ~Rejected(req) /\ req.entry = "batch" => req.len \in Nat
        BY DEF Rejected
      <4> QED BY <4>1, <4>2 DEF Remaining
    <3> QED BY <2>1, <3>1 DEF Enter, TypeOK
  <2>2. ASSUME remain > 0
        PROVE  Xfer(ChunkLen) \in [at : 0..Word-1, off : Nat, len : 1..ChunkMax, flags : Nat]
    BY <2>2, ChunkFacts, FinishBit DEF TypeOK, Xfer
  <2>3. CASE Chunk
    <3>1. addr' \in 0..Word-1
      <4>1. ChunkLen \in Nat
        BY <2>3, ChunkFacts, ChunkAssumption DEF Chunk
      <4>2. Advance(req, ChunkLen) \in Nat
        BY <4>1, AdvanceFacts
      <4>3. addr' = (addr + Advance(req, ChunkLen)) % Word
        BY <2>3 DEF Chunk
      <4>4. addr + Advance(req, ChunkLen) \in Int
        BY <4>2 DEF TypeOK
      <4> QED BY <4>3, <4>4, WordRange, Zenon
    <3>2. remain' \in Nat /\ off' \in Nat
      BY <2>3, ChunkFacts DEF Chunk, TypeOK
    <3>3. /\ flags' \in Nat
          /\ xfers' \subseteq [at : 0..Word-1, off : Nat, len : 1..ChunkMax, flags : Nat]
      BY <2>2, <2>3 DEF Chunk, TypeOK
    <3> QED BY <2>3, <3>1, <3>2, <3>3 DEF Chunk, TypeOK
  <2>4. CASE ChunkFails
    BY <2>2, <2>4 DEF ChunkFails, TypeOK
  <2>5. CASE Finish
    BY <2>5 DEF Finish, TypeOK
  <2>6. CASE Returned \/ UNCHANGED vars
    BY <2>6 DEF Returned, vars, TypeOK
  <2> QED BY <2>1, <2>3, <2>4, <2>5, <2>6 DEF Next
<1> QED BY <1>1, <1>2, PTL DEF Spec

----------------------------------------------------------------------------
(***************************************************************************)
(* The loop invariant.  Between two iterations the buffer offset is a      *)
(* whole number of address units, which is why adding up the rounded-down  *)
(* advances gives the address of the offset; only the last chunk may end   *)
(* inside a sector, and no address is used after it.                       *)
(***************************************************************************)
LoopInv ==
  /\ pc = "start" => off = 0 /\ xfers = {} /\ flags = req.tag
  /\ pc = "done" <=> ret # "none"
  /\ addr = (req.base + off \div AddrUnit(req)) % Word
  /\ pc = "loop" => off + remain = Remaining(req)
  /\ remain > 0 => off % AddrUnit(req) = 0 /\ flags = req.tag
  /\ pc = "start" => remain = 0
  /\ pc = "loop" => ~Rejected(req)
  /\ ret = "SUCCESS" => off = Remaining(req)

(* The chunk that does not exhaust the count leaves the offset on a unit.  *)
LEMMA AddressStep ==
  ASSUME TypeOK, LoopInv, remain > 0
  PROVE  /\ (addr + Advance(req, ChunkLen)) % Word
              = (req.base + (off + ChunkLen) \div AddrUnit(req)) % Word
         /\ ChunkLen < remain => (off + ChunkLen) % AddrUnit(req) = 0
<1>1. /\ AddrUnit(req) \in Nat \ {0} /\ req.base \in Int /\ Word \in Nat \ {0}
      /\ ChunkLen \in Nat /\ off \in Nat /\ off % AddrUnit(req) = 0
  BY RequestFacts, ChunkFacts, ChunkAssumption DEF TypeOK, LoopInv
<1>2. Advance(req, ChunkLen) = ChunkLen \div AddrUnit(req)
  BY <1>1, AdvanceFacts
<1>3. (addr + Advance(req, ChunkLen)) % Word
         = (req.base + (off + ChunkLen) \div AddrUnit(req)) % Word
  <2>1. (((req.base + off \div AddrUnit(req)) % Word) + ChunkLen \div AddrUnit(req)) % Word
           = (req.base + (off + ChunkLen) \div AddrUnit(req)) % Word
    <3>1. \A b, o, n \in Int :
             o % AddrUnit(req) = 0 =>
               (((b + o \div AddrUnit(req)) % Word) + n \div AddrUnit(req)) % Word
                  = (b + (o + n) \div AddrUnit(req)) % Word
      BY <1>1, PlaceStep, Zenon
    <3> QED BY <1>1, <3>1, NatInt, Zenon
  <2>2. addr = (req.base + off \div AddrUnit(req)) % Word
    BY DEF LoopInv
  <2> QED BY <1>2, <2>1, <2>2, Zenon
<1>4. (off + ChunkLen) % AddrUnit(req) = ChunkLen % AddrUnit(req)
  BY <1>1, DivAdd, NatInt, Zenon
<1>5. ChunkLen < remain => ChunkLen % AddrUnit(req) = 0
  <2>1. ChunkMax % AddrUnit(req) = 0
    BY RequestFacts, ChunkAssumption, DivTrivial
  <2> QED BY <2>1, ChunkFacts
<1> QED BY <1>3, <1>4, <1>5

LEMMA LoopInvInit == Init => LoopInv
<1> SUFFICES ASSUME Init PROVE LoopInv
  OBVIOUS
<1>1. TypeOK
  BY RequestsAssumption DEF Init, TypeOK, Request
<1>2. 0 \div AddrUnit(req) = 0
  BY <1>1, RequestFacts, DivTrivial
<1>3. req.base % Word = req.base
  BY <1>1, RequestFacts, ChunkAssumption, SMT
<1> QED BY <1>1, <1>2, <1>3, RequestFacts DEF Init, LoopInv

LEMMA LoopInvNext == TypeOK /\ LoopInv /\ [Next]_vars => LoopInv'
<1> SUFFICES ASSUME TypeOK, LoopInv, [Next]_vars PROVE LoopInv'
  OBVIOUS
<1>1. CASE Enter
  <2>1. off = 0 /\ flags = req.tag
    BY <1>1 DEF Enter, LoopInv
  <2>2. 0 % AddrUnit(req) = 0
    BY RequestFacts, DivTrivial
  <2>3. Remaining(req) \in Int
    <3>1. req.len \in Int
      BY RequestFacts
    <3>2. req.len % Word \in Int
      BY <3>1, WordRange
    <3> QED BY <3>1, <3>2 DEF Remaining
  <2> QED BY <1>1, <2>1, <2>2, <2>3 DEF Enter, LoopInv, TypeOK
<1>2. CASE Chunk
  <2>1. /\ remain > 0 /\ pc = "loop" /\ remain' = remain - ChunkLen /\ off' = off + ChunkLen
        /\ addr' = (addr + Advance(req, ChunkLen)) % Word
        /\ flags' = Xfer(ChunkLen).flags
        /\ UNCHANGED <<req, pc, ret>>
    BY <1>2 DEF Chunk
  <2>2. ChunkLen \in Nat /\ ChunkLen <= remain /\ remain \in Nat /\ off \in Nat
    BY <2>1, ChunkFacts DEF TypeOK
  <2>3. addr' = (req'.base + off' \div AddrUnit(req')) % Word
    BY <2>1, AddressStep
  <2>4. remain' > 0 => off' % AddrUnit(req') = 0 /\ flags' = req'.tag
    <3> SUFFICES ASSUME remain' > 0 PROVE off' % AddrUnit(req') = 0 /\ flags' = req'.tag
      OBVIOUS
    <3>1. ChunkLen < remain
      BY <2>1, <2>2
    <3>2. flags' = flags
      BY <2>1, <2>2, <3>1 DEF Xfer
    <3> QED BY <2>1, <3>1, <3>2, AddressStep DEF LoopInv
  <2>5. off' + remain' = Remaining(req')
    BY <2>1, <2>2 DEF LoopInv
  <2> QED BY <2>1, <2>3, <2>4, <2>5 DEF LoopInv
<1>3. CASE ChunkFails
  BY <1>3 DEF ChunkFails, LoopInv
<1>4. CASE Finish
  BY <1>4 DEF Finish, LoopInv, TypeOK
<1>5. CASE Returned \/ UNCHANGED vars
  BY <1>5 DEF Returned, vars, LoopInv
<1> QED BY <1>1, <1>2, <1>3, <1>4, <1>5 DEF Next

LEMMA LoopInvariant == Spec => []LoopInv
  BY TypeCorrect, LoopInvInit, LoopInvNext, PTL DEF Spec

(* No truncation: the count is the length asked for.                       *)
LEMMA FullLength ==
  ASSUME TypeOK, LoopInv, InRange(req), pc = "loop"
  PROVE  Remaining(req) = req.len
<1>1. req.len \in Int /\ req.entry \in Entries
  BY RequestFacts
<1>2. req.len >= 0
  BY <1>1, RequestsAssumption DEF TypeOK, LoopInv, Rejected
<1>3. req.entry # "batch" => req.len < Word
  BY DEF InRange
<1>4. req.len < Word => req.len % Word = req.len
  BY <1>1, <1>2, ChunkAssumption, SMT
<1> QED BY <1>1, <1>3, <1>4 DEF Remaining

----------------------------------------------------------------------------
(***************************************************************************)
(* The finish tag travels with the last byte and with nothing else.        *)
(***************************************************************************)
LEMMA FinishStep ==
  ASSUME TypeOK, LoopInv, InRange(req), (req.tag \div FinishTag) % 2 # 1,
         pc = "loop", remain > 0
  PROVE  LET x == Xfer(ChunkLen) IN Finishes(x) <=> x.off + x.len = req.len
<1>1. off + remain = req.len /\ off \in Nat /\ remain \in Nat
  BY FullLength DEF LoopInv, TypeOK
<1>2. ChunkLen \in Nat /\ ChunkLen <= remain
  BY ChunkFacts
<1>3. Xfer(ChunkLen).off + Xfer(ChunkLen).len = req.len <=> remain = ChunkLen
  BY <1>1, <1>2 DEF Xfer
<1>4. flags = req.tag /\ flags \in Nat
  BY RequestFacts DEF LoopInv
<1>5. CASE remain = ChunkLen
  <2>1. Xfer(ChunkLen).flags = SetFinish(flags)
    BY <1>5 DEF Xfer
  <2> QED BY <1>3, <1>4, <1>5, <2>1, FinishBit DEF Finishes
<1>6. CASE remain # ChunkLen
  <2>1. Xfer(ChunkLen).flags = flags
    BY <1>6 DEF Xfer
  <2> QED BY <1>3, <1>4, <1>6, <2>1 DEF Finishes
<1> QED BY <1>5, <1>6

(* FinishMarksTheEnd for every request, chunk and sector size.             *)
THEOREM FinishCorrect == Spec => []FinishMarksTheEnd
<1>1. Init => FinishMarksTheEnd
  BY DEF Init, FinishMarksTheEnd
<1>2. TypeOK /\ LoopInv /\ FinishMarksTheEnd /\ [Next]_vars => FinishMarksTheEnd'
  <2> SUFFICES ASSUME TypeOK, LoopInv, FinishMarksTheEnd, [Next]_vars,
                      InRange(req)', ((req.tag \div FinishTag) % 2 # 1)',
                      NEW x \in xfers'
               PROVE  (Finishes(x) <=> x.off + x.len = req.len)'
    BY DEF FinishMarksTheEnd
  <2>1. req' = req
    BY DEF Next, vars, Enter, Chunk, ChunkFails, Finish, Returned
  <2>2. InRange(req) /\ (req.tag \div FinishTag) % 2 # 1
    BY <2>1 DEF InRange
  <2>3. CASE x \in xfers
    BY <2>1, <2>2, <2>3 DEF FinishMarksTheEnd, Finishes
  <2>4. CASE x \notin xfers
    <3>1. x = Xfer(ChunkLen) /\ pc = "loop" /\ remain > 0
      BY <2>4 DEF Next, vars, Enter, Chunk, ChunkFails, Finish, Returned
    <3>2. Finishes(Xfer(ChunkLen)) <=> Xfer(ChunkLen).off + Xfer(ChunkLen).len = req.len
      BY <2>2, <3>1, FinishStep
    <3>3. Finishes(x) <=> x.off + x.len = req.len
      BY <3>1, <3>2
    <3> QED BY <2>1, <3>3 DEF Finishes
  <2> QED BY <2>3, <2>4
<1> QED BY <1>1, <1>2, TypeCorrect, LoopInvariant, PTL DEF Spec

----------------------------------------------------------------------------
(***************************************************************************)
(* Every loop implements RangeTransfer, as long as no length is truncated. *)
(***************************************************************************)
LEMMA ChunkPlaced ==
  ASSUME TypeOK, LoopInv, InRange(req), pc = "loop", remain > 0
  PROVE  /\ ChunkLen \in 1..(req.len - off)
         /\ PieceOf(Xfer(ChunkLen)) = Range!Piece(ChunkLen)
<1>1. off + remain = req.len /\ off \in Nat /\ remain \in Nat
  BY FullLength DEF LoopInv, TypeOK
<1>2. ChunkLen \in 1..(req.len - off)
  BY <1>1, ChunkFacts, ChunkAssumption
<1>3. addr = (req.base + off \div AddrUnit(req)) % Word
  BY DEF LoopInv
<1> QED BY <1>2, <1>3 DEF PieceOf, Xfer, Range!Piece, Range!Place

THEOREM Implements ==
  ASSUME \A r \in Requests : InRange(r)
  PROVE  Spec => ImplementsRange
<1>1. Init => Range!Init
  <2> SUFFICES ASSUME Init PROVE Range!Init
    OBVIOUS
  <2>1. TypeOK
    BY RequestsAssumption DEF Init, TypeOK, Request
  <2> QED BY <2>1, RequestFacts DEF Init, Range!Init
<1>2. TypeOK /\ LoopInv /\ [Next]_vars => [Range!Next]_(Range!vars)
  <2> SUFFICES ASSUME TypeOK, LoopInv, [Next]_vars
               PROVE  Range!Next \/ UNCHANGED Range!vars
    OBVIOUS
  <2>0. InRange(req)
    BY DEF TypeOK
  <2>1. CASE Enter
    <3>1. off = 0 /\ ret = "none"
      BY <2>1 DEF Enter, LoopInv
    <3>2. CASE Rejected(req)
      BY <2>1, <3>1, <3>2 DEF Enter, Range!Next, Range!Reject
    <3>3. CASE ~Rejected(req)
      BY <2>1, <3>3 DEF Enter, Range!vars
    <3> QED BY <3>2, <3>3
  <2>2. ASSUME pc = "loop", remain > 0, xfers' = xfers \cup {Xfer(ChunkLen)}
        PROVE  {PieceOf(x) : x \in xfers}' = {PieceOf(x) : x \in xfers} \cup {Range!Piece(ChunkLen)}
    <3>1. PieceOf(Xfer(ChunkLen)) = Range!Piece(ChunkLen)
      BY <2>0, <2>2, ChunkPlaced
    <3>2. {PieceOf(x) : x \in xfers}' = {PieceOf(x) : x \in xfers'}
      BY DEF PieceOf
    <3> QED BY <2>2, <3>1, <3>2
  <2>3. CASE Chunk
    <3>1. pc = "loop" /\ remain > 0 /\ xfers' = xfers \cup {Xfer(ChunkLen)}
          /\ off' = off + ChunkLen /\ ret' = ret /\ req' = req
      BY <2>3 DEF Chunk
    <3>2. ChunkLen \in 1..(req.len - off) /\ ret = "none"
      BY <2>0, <3>1, ChunkPlaced DEF LoopInv
    <3>3. Range!Move(ChunkLen)
      BY <2>2, <3>1, <3>2 DEF Range!Move, AddrUnit, ByteAddressed
    <3> QED BY <3>2, <3>3 DEF Range!Next
  <2>4. CASE ChunkFails
    <3>1. pc = "loop" /\ remain > 0 /\ xfers' = xfers \cup {Xfer(ChunkLen)}
          /\ off' = off /\ ret' = "error" /\ req' = req
      BY <2>4 DEF ChunkFails
    <3>2. ChunkLen \in 1..(req.len - off) /\ ret = "none"
      BY <2>0, <3>1, ChunkPlaced DEF LoopInv
    <3>3. Range!Fail(ChunkLen)
      BY <2>2, <3>1, <3>2 DEF Range!Fail, AddrUnit, ByteAddressed
    <3> QED BY <3>2, <3>3 DEF Range!Next
  <2>5. CASE Finish
    <3>1. off = req.len /\ ret = "none"
      BY <2>0, <2>5, FullLength DEF Finish, LoopInv, TypeOK
    <3> QED BY <2>5, <3>1 DEF Finish, Range!Next, Range!Succeed
  <2>6. CASE Returned \/ UNCHANGED vars
    BY <2>6 DEF Returned, vars, Range!vars
  <2> QED BY <2>1, <2>3, <2>4, <2>5, <2>6 DEF Next
<1> QED BY <1>1, <1>2, TypeCorrect, LoopInvariant, PTL DEF Spec, ImplementsRange, Range!Spec

----------------------------------------------------------------------------
(***************************************************************************)
(* No two transfers touch the same address.  The transfers issued so far   *)
(* stand in the buffer one behind the other, each starting on a whole      *)
(* address unit at the address of its offset.  So two of them are on two   *)
(* sides of a unit boundary, and units of a range not larger than the      *)
(* address space have different addresses.                                 *)
(***************************************************************************)
Apart(x, y) == x.off + x.len <= y.off \/ y.off + y.len <= x.off
PlacedInv ==
  /\ \A x \in xfers : /\ x.at = (req.base + x.off \div AddrUnit(req)) % Word
                      /\ x.off % AddrUnit(req) = 0
                      /\ InRange(req) => x.off + x.len <= req.len
  /\ pc # "done" => \A x \in xfers : x.off + x.len <= off
  /\ \A x, y \in xfers : x = y \/ Apart(x, y)

(* A transfer issued by the loop stands behind all earlier ones.           *)
LEMMA PlacedStep ==
  ASSUME TypeOK, LoopInv, PlacedInv, pc = "loop", remain > 0,
         req' = req, xfers' = xfers \cup {Xfer(ChunkLen)},
         pc' = "done" \/ off' = off + ChunkLen
  PROVE  PlacedInv'
<1> DEFINE new == Xfer(ChunkLen)
<1>1. /\ off \in Nat /\ ChunkLen \in Nat
      /\ \A x \in xfers : x.off \in Nat /\ x.len \in Nat
  BY ChunkFacts, ChunkAssumption DEF TypeOK
<1>2. /\ new.at = (req.base + new.off \div AddrUnit(req)) % Word
      /\ new.off % AddrUnit(req) = 0
      /\ new.off = off /\ new.len = ChunkLen
  BY DEF Xfer, LoopInv
<1>3. InRange(req) => new.off + new.len <= req.len
  <2> SUFFICES ASSUME InRange(req) PROVE off + ChunkLen <= req.len
    BY <1>2
  <2>1. off + remain = req.len
    BY FullLength DEF LoopInv
  <2> QED BY <1>1, <2>1, ChunkFacts DEF TypeOK
<1> HIDE DEF new
<1>4. \A x \in xfers : x.off + x.len <= off
  BY DEF PlacedInv
<1>5. xfers' = xfers \cup {new}
  BY DEF new
<1>6. \A x \in xfers' : /\ x.at = (req.base + x.off \div AddrUnit(req)) % Word
                        /\ x.off % AddrUnit(req) = 0
                        /\ InRange(req) => x.off + x.len <= req.len
  BY <1>2, <1>3, <1>5 DEF PlacedInv
<1>7. pc' # "done" => \A x \in xfers' : x.off + x.len <= off'
  BY <1>1, <1>2, <1>4, <1>5
<1>8. \A x, y \in xfers' : x = y \/ Apart(x, y)
  BY <1>2, <1>4, <1>5 DEF PlacedInv, Apart
<1> QED BY <1>6, <1>7, <1>8 DEF PlacedInv, Apart, InRange, AddrUnit, ByteAddressed

LEMMA PlacedInvariant == Spec => []PlacedInv
<1>1. Init => PlacedInv
  BY DEF Init, PlacedInv
<1>2. TypeOK /\ LoopInv /\ PlacedInv /\ [Next]_vars => PlacedInv'
  <2> SUFFICES ASSUME TypeOK, LoopInv, PlacedInv, [Next]_vars PROVE PlacedInv'
    OBVIOUS
  <2> USE DEF AddrUnit, ByteAddressed, InRange
  <2>1. CASE Enter
    BY <2>1 DEF Enter, PlacedInv, Apart
  <2>2. CASE Chunk
    BY <2>2, PlacedStep DEF Chunk
  <2>3. CASE ChunkFails
    BY <2>3, PlacedStep DEF ChunkFails
  <2>4. CASE Finish
    BY <2>4 DEF Finish, PlacedInv, Apart
  <2>5. CASE Returned \/ UNCHANGED vars
    BY <2>5 DEF Returned, vars, PlacedInv, Apart
  <2> QED BY <2>1, <2>2, <2>3, <2>4, <2>5 DEF Next
<1> QED BY <1>1, <1>2, TypeCorrect, LoopInvariant, PTL DEF Spec

(* The address of the byte k of a transfer is that of its offset.          *)
LEMMA ByteAddress ==
  ASSUME TypeOK, PlacedInv, NEW x \in xfers, NEW k \in Nat
  PROVE  (x.at + k \div AddrUnit(req)) % Word = (req.base + (x.off + k) \div AddrUnit(req)) % Word
<1>1. /\ AddrUnit(req) \in Nat \ {0} /\ Word \in Nat \ {0} /\ req.base \in Int /\ x.off \in Int
      /\ k \in Int
  BY RequestFacts, ChunkAssumption DEF TypeOK
<1>2. x.at = (req.base + x.off \div AddrUnit(req)) % Word /\ x.off % AddrUnit(req) = 0
  BY DEF PlacedInv
<1>3. (((req.base + x.off \div AddrUnit(req)) % Word) + k \div AddrUnit(req)) % Word
        = (req.base + (x.off + k) \div AddrUnit(req)) % Word
  <2>1. \A b, o, n \in Int :
           o % AddrUnit(req) = 0 =>
             (((b + o \div AddrUnit(req)) % Word) + n \div AddrUnit(req)) % Word
                = (b + (o + n) \div AddrUnit(req)) % Word
    BY <1>1, PlaceStep, Zenon
  <2> QED BY <1>1, <1>2, <2>1, Zenon
<1> QED BY <1>2, <1>3, Zenon

(* Two transfers, one behind the other, of a range that fits.              *)
LEMMA BehindApart ==
  ASSUME TypeOK, PlacedInv, InRange(req), req.len <= Word * AddrUnit(req),
         NEW x \in xfers, NEW y \in xfers, x.off + x.len <= y.off
  PROVE  Touched(x) \cap Touched(y) = {}
<1> SUFFICES ASSUME NEW k \in 0..x.len-1, NEW l \in 0..y.len-1,
                    (x.at + k \div AddrUnit(req)) % Word = (y.at + l \div AddrUnit(req)) % Word
             PROVE  FALSE
  BY DEF Touched
<1> DEFINE u == AddrUnit(req)
           i == x.off + k
           j == y.off + l
           m == y.off
<1>1. /\ x.off \in Nat /\ x.len \in Nat /\ y.off \in Nat /\ y.len \in Nat
      /\ k \in Nat /\ l \in Nat
      /\ req.base \in Int /\ req.len \in Int /\ Word \in Nat \ {0} /\ u \in Nat \ {0}
  BY RequestFacts, ChunkAssumption DEF TypeOK
<1>2. y.off + y.len <= req.len /\ m % u = 0
  BY DEF PlacedInv
<1>3. (req.base + i \div u) % Word = (req.base + j \div u) % Word
  BY <1>1, ByteAddress
<1>4. Word * u \in Int /\ req.len <= Word * u
  BY <1>1
<1>5. i \in Nat /\ j \in Nat /\ m \in Nat /\ i < m /\ m <= j /\ j < Word * u
  <2> DEFINE range == Word * u
  <2>1. range \in Int /\ req.len <= range
    BY <1>4
  <2> HIDE DEF range, u
  <2>2. i \in Nat /\ j \in Nat /\ m \in Nat /\ i < m /\ m <= j /\ j < range
    BY <1>1, <1>2, <2>1
  <2> QED BY <2>2 DEF range
<1> HIDE DEF u, i, j, m
<1>6. i \div u \in Nat /\ j \div u \in Nat /\ i \div u < j \div u /\ j \div u < Word
  BY <1>1, <1>2, <1>5, DivSeparates
<1> DEFINE p == req.base + i \div u
           q == req.base + j \div u
<1>7. p \in Int /\ q \in Int /\ p < q /\ q - p < Word
  BY <1>1, <1>6
<1>8. p % Word = q % Word
  BY <1>3
<1> HIDE DEF p, q
<1> QED BY <1>1, <1>7, <1>8, ModInjective

(* NoOverlap for every request whose range fits into the address space.    *)
THEOREM NothingOverlaps == Spec => []NoOverlap
<1>1. TypeOK /\ PlacedInv => NoOverlap
  <2> SUFFICES ASSUME TypeOK, PlacedInv, InRange(req), req.len <= Word * AddrUnit(req),
                      NEW x \in xfers, NEW y \in xfers, x # y
               PROVE  Touched(x) \cap Touched(y) = {}
    BY DEF NoOverlap
  <2>1. Apart(x, y)
    BY DEF PlacedInv
  <2>2. CASE x.off + x.len <= y.off
    BY <2>2, BehindApart
  <2>3. CASE y.off + y.len <= x.off
    <3>1. Touched(y) \cap Touched(x) = {}
      BY <2>3, BehindApart
    <3> QED BY <3>1
  <2> QED BY <2>1, <2>2, <2>3 DEF Apart
<1> QED BY <1>1, TypeCorrect, PlacedInvariant, PTL
=============================================================================
