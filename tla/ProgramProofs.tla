----------------------------- MODULE ProgramProofs ----------------------------
(***************************************************************************)
(* Theorems about the programs built on the library, for all parameters.   *)
(* The command lines: what a run moved is told by its exit code, and       *)
(* nothing stays open.  The flashing flow: exit code 0 means that the      *)
(* image was sent, and verified, in FES mode.                              *)
(***************************************************************************)
EXTENDS Cli, FlashFlow, WordArithmetic, SequenceTheorems

LoopCmds == ReadCmds \cup {"write"}
Opening == {"scan", "usb_init", "efex_init", "command"}
Looping == {"loop", "transfer", "save"}

(* A beginning of the range, n bytes long.                                 *)
Beginning(n) == Bytes(args.address, 0, n)

(***************************************************************************)
(* Byte sequences.                                                         *)
(***************************************************************************)
LEMMA WordFacts ==
  /\ \A x \in Int : x % Word \in 0..Word-1
  /\ \A x, y \in Int : ((x % Word) + y) % Word = (x + y) % Word
<1>1. Word \in Nat \ {0}
  BY CliAssumption
<1>2. \A x \in Int : x % Word \in 0..Word-1
  BY <1>1, DivMod, Zenon
<1>3. \A x, y \in Int : ((x % Word) + y) % Word = (x + y) % Word
  BY <1>1, ModAdd, Zenon
<1> QED BY <1>2, <1>3

LEMMA BytesFacts ==
  ASSUME NEW a \in Int, NEW o \in Int, NEW n \in Nat
  PROVE  Bytes(a, o, n) \in Seq([addr : Int, off : Int]) /\ Len(Bytes(a, o, n)) = n
<1>1. ASSUME NEW i \in 1..n
      PROVE  [addr |-> (a + i - 1) % Word, off |-> o + i - 1] \in [addr : Int, off : Int]
  <2>1. (a + i - 1) % Word \in Int
    BY WordFacts, a + i - 1 \in Int
  <2> QED BY <2>1
<1> DEFINE B == [addr : Int, off : Int]
           s == Bytes(a, o, n)
<1>2. s \in [1..n -> B]
  BY <1>1 DEF Bytes
<1> HIDE DEF B, s
<1>3. s \in Seq(B)
  BY <1>2, SeqDef
<1>4. Len(s) = n
  BY <1>2, <1>3, LenProperties
<1> QED BY <1>3, <1>4 DEF B, s

(* The bytes behind the first m ones continue them, also where the address *)
(* wraps.                                                                  *)
LEMMA BytesAppend ==
  ASSUME NEW a \in Int, NEW m \in Nat, NEW n \in Nat
  PROVE  Bytes(a, 0, m) \o Bytes((a + m) % Word, m, n) = Bytes(a, 0, m + n)
<1> DEFINE B == [addr : Int, off : Int]
           b == (a + m) % Word
           s == Bytes(a, 0, m)
           t == Bytes(b, m, n)
           u == Bytes(a, 0, m + n)
<1>1. b \in Int /\ \A x \in Int : (b + x) % Word = (a + m + x) % Word
  BY WordFacts, a + m \in Int
<1>2. /\ s \in Seq(B) /\ t \in Seq(B) /\ u \in Seq(B)
      /\ Len(s) = m /\ Len(t) = n /\ Len(u) = m + n
  <2> HIDE DEF b
  <2> QED BY <1>1, BytesFacts, m + n \in Nat
<1>3. /\ \A i \in 1..m : s[i] = [addr |-> (a + i - 1) % Word, off |-> 0 + i - 1]
      /\ \A i \in 1..n : t[i] = [addr |-> (b + i - 1) % Word, off |-> m + i - 1]
      /\ \A i \in 1..(m + n) : u[i] = [addr |-> (a + i - 1) % Word, off |-> 0 + i - 1]
  BY DEF Bytes
<1> HIDE DEF B, b, s, t, u
<1>4. ASSUME NEW i \in 1..(m + n) PROVE (s \o t)[i] = u[i]
  <2>1. CASE i <= m
    <3>1. i \in 1..m
      BY <2>1
    <3>2. (s \o t)[i] = s[i]
      BY <1>2, <2>1, ConcatProperties
    <3> QED BY <1>3, <3>1, <3>2
  <2>2. CASE i > m
    <3> DEFINE j == i - m
    <3>1. j \in 1..n
      BY <2>2
    <3>2. (s \o t)[i] = t[j]
      BY <1>2, <2>2, ConcatProperties
    <3>3. (b + (j - 1)) % Word = (a + m + (j - 1)) % Word
      BY <1>1, <3>1
    <3>4. b + (j - 1) = b + j - 1 /\ a + m + (j - 1) = a + i - 1 /\ m + j - 1 = 0 + i - 1
      BY <1>1
    <3> QED BY <1>3, <3>1, <3>2, <3>3, <3>4
  <2>3. i <= m \/ i > m
    OBVIOUS
  <2> QED BY <2>1, <2>2, <2>3, Zenon
<1>5. s \o t \in Seq(B) /\ Len(s \o t) = Len(u)
  BY <1>2, ConcatProperties
<1>6. s \o t = u
  BY <1>2, <1>4, <1>5, SeqEqual
<1> QED BY <1>6 DEF b, s, t, u

(* The first k bytes.                                                      *)
LEMMA BytesBeginning ==
  ASSUME NEW a \in Int, NEW o \in Int, NEW n \in Nat, NEW k \in 0..n
  PROVE  SubSeq(Bytes(a, o, n), 1, k) = Bytes(a, o, k)
<1> DEFINE B == [addr : Int, off : Int]
           s == Bytes(a, o, n)
           t == Bytes(a, o, k)
<1>1. s \in Seq(B) /\ t \in Seq(B) /\ Len(s) = n /\ Len(t) = k
  BY BytesFacts
<1>2. \A i \in 1..k : s[i] = t[i]
  BY DEF Bytes
<1> HIDE DEF B, s, t
<1>3. \A i \in 1..k : s[i] \in B
  BY <1>1, ElementOfSeq
<1>4. /\ SubSeq(s, 1, k) \in Seq(B)
      /\ Len(SubSeq(s, 1, k)) = k
      /\ \A i \in 1..k : SubSeq(s, 1, k)[i] = s[i]
  BY <1>3, SubSeqProperties
<1>5. SubSeq(s, 1, k) = t
  BY <1>1, <1>2, <1>4, SeqEqual
<1> QED BY <1>5 DEF s, t

LEMMA NoBytes == \A a, o : Bytes(a, o, 0) = <<>>
  BY DEF Bytes

(***************************************************************************)
(* The invariant: what was opened where main is; the address and the rest  *)
(* of a loop; and, unless a file failed unnoticed, what was moved and what *)
(* is in the buffer, up to the exit code.                                  *)
(***************************************************************************)
HeldInv ==
  /\ rust => "progress" \notin held
  /\ pc = "scan" => held \subseteq {"progress"}
  /\ pc \in Opening \cup {"cleanup"} => held \subseteq {"handle", "progress"}
  /\ pc \in Looping => held \subseteq {"handle", "progress", "file", "buffer"}
  /\ Released

Accounts ==
  /\ remaining <= args.length
  /\ cur = (args.address + Offset) % Word
  /\ pc \in Opening \cup Looping => exit_code = 0
  /\ pc \in Opening => remaining = args.length /\ moved = <<>>
  /\ pc \in Looping => args.cmd \in LoopCmds
  /\ pc \in {"transfer", "save"} => remaining > 0
  /\ pc = "save" => chunk = Bytes(cur, Offset, Least(remaining, Chunk))

Told ==
  FilesNoticed =>
    /\ pc \in Looping => moved = Beginning(Offset)
    /\ pc \in {"cleanup", "exited"} /\ args.cmd \in LoopCmds =>
         /\ \E n \in 0..args.length : moved = Beginning(n)
         /\ exit_code = 0 => moved = Wanted

IInv == TypeOK /\ HeldInv /\ Accounts /\ Told

LEMMA ArgFacts ==
  ASSUME TypeOK
  PROVE  /\ args.address \in 0..Word-1 /\ args.length \in Nat /\ args.cmd \in Cmds
         /\ remaining \in Nat /\ cur \in 0..Word-1 /\ Chunk \in Nat \ {0}
  BY CliAssumption DEF TypeOK

(* A chunk leaves no more than the range to move.                          *)
LEMMA LessRemains ==
  ASSUME TypeOK, Accounts, NEW n \in 1..remaining, UNCHANGED args, remaining' = remaining - n
  PROVE  remaining' \in Nat /\ remaining' <= args'.length
<1>1. remaining \in Nat /\ args.length \in Nat /\ remaining <= args.length
  BY ArgFacts DEF Accounts
<1>2. remaining - n \in Nat /\ remaining - n <= args.length
  BY <1>1
<1> QED BY <1>2, Zenon

(* Where a loop stands after the next n bytes, a chunk at most.            *)
LEMMA ChunkFacts ==
  ASSUME TypeOK, Accounts, remaining > 0, NEW n \in 1..Least(remaining, Chunk)
  PROVE  /\ n \in 1..remaining /\ Offset \in Nat /\ Offset + n <= args.length
         /\ args.length - (remaining - n) = Offset + n
         /\ (cur + n) % Word \in 0..Word-1
         /\ (cur + n) % Word = (args.address + (Offset + n)) % Word
         /\ Beginning(Offset) \o Bytes(cur, Offset, n) = Beginning(Offset + n)
         /\ \A k \in 0..n : Beginning(Offset) \o Bytes(cur, Offset, k) = Beginning(Offset + k)
<1>1. n \in 1..remaining
  BY ArgFacts DEF Least
<1>2. Offset \in Nat /\ Offset + n <= args.length /\ args.length - (remaining - n) = Offset + n
  BY ArgFacts, <1>1 DEF Accounts, Offset
<1>3. args.address \in Int /\ args.address + Offset \in Int /\ n \in Int /\ cur \in Int
  BY ArgFacts, <1>1, <1>2
<1>4. (cur + n) % Word \in 0..Word-1
  <2>1. cur + n \in Int
    BY <1>3
  <2> QED BY <2>1, WordFacts
<1>5. (cur + n) % Word = (args.address + (Offset + n)) % Word
  <2> DEFINE x == args.address + Offset
  <2>1. ((x % Word) + n) % Word = (x + n) % Word
    BY <1>3, WordFacts
  <2>2. x + n = args.address + (Offset + n)
    BY <1>2, <1>3
  <2> QED BY <2>1, <2>2 DEF Accounts
<1>6. ASSUME NEW k \in 0..n
      PROVE  Beginning(Offset) \o Bytes(cur, Offset, k) = Beginning(Offset + k)
  <2>1. k \in Nat
    BY <1>1
  <2>2. Bytes(args.address, 0, Offset) \o Bytes((args.address + Offset) % Word, Offset, k)
          = Bytes(args.address, 0, Offset + k)
    BY <1>2, <1>3, <2>1, BytesAppend
  <2> QED BY <2>2 DEF Beginning, Accounts
<1>7. n \in 0..n
  BY <1>1
<1> QED BY <1>1, <1>2, <1>4, <1>5, <1>6, <1>7

(* A whole chunk is one.                                                   *)
LEMMA WholeChunk ==
  ASSUME TypeOK, remaining > 0
  PROVE  Least(remaining, Chunk) \in 1..Least(remaining, Chunk)
  BY ArgFacts DEF Least

LEMMA InitFits == Init => IInv
<1> SUFFICES ASSUME Init PROVE IInv
  OBVIOUS
<1>1. TypeOK
  <2>1. args.address \in Bases /\ args.length \in Lengths
    BY DEF Init
  <2>2. cur \in 0..Word-1 /\ remaining \in Nat
    BY <2>1, CliAssumption DEF Init
  <2>3. args \in [cmd : Cmds, address : Bases, length : Lengths]
    BY DEF Init
  <2>4. pc \in Pcs /\ held \subseteq Resources /\ exit_code \in 0..5
    BY DEF Init, Pcs, Resources
  <2>5. rust \in Programs /\ file_failed \in BOOLEAN
    BY DEF Init
  <2> QED BY <2>2, <2>3, <2>4, <2>5 DEF TypeOK
<1>2. Offset = 0 /\ args.address % Word = args.address /\ cur = (args.address + Offset) % Word
  <2>1. args.length - args.length = 0 /\ args.address + 0 = args.address
    BY <1>1, ArgFacts
  <2>2. args.address % Word = args.address
    BY <1>1, ArgFacts, CliAssumption
  <2> QED BY <2>1, <2>2 DEF Init, Offset
<1>3. Accounts
  BY <1>2, <1>1, ArgFacts DEF Init, Accounts, Opening, Looping
<1> QED BY <1>1, <1>3 DEF IInv, Init, HeldInv, Released, Told, Opening, Looping

(***************************************************************************)
(* The steps.                                                              *)
(***************************************************************************)

(* A run that ends before it has moved anything tells so.                  *)
LEMMA NothingMoved ==
  ASSUME TypeOK, moved = <<>>
  PROVE  \E n \in 0..args.length : moved = Beginning(n)
  BY NoBytes, ArgFacts DEF Beginning

(* Steps that leave range and bytes alone.                                 *)
LEMMA OpeningStep ==
  ASSUME IInv, UNCHANGED rust, UNCHANGED file_failed,
         Scan \/ UsbInit \/ EfexInit \/ BadCommand \/ Version \/ OpenLoop \/ Cleanup
  PROVE  IInv'
<1> USE DEF Goto, Exit, Locals, Opening, Looping
<1>1. TypeOK'
  <2>1. pc' \in Pcs /\ exit_code' \in 0..5
    BY DEF IInv, TypeOK, Pcs, Scan, UsbInit, EfexInit, BadCommand, Version, OpenLoop, Cleanup
  <2>2. held' \subseteq Resources
    BY DEF IInv, TypeOK, Resources, ScanLeaves, Scan, UsbInit, EfexInit, BadCommand, Version,
           OpenLoop, Cleanup
  <2>3. UNCHANGED <<args, cur, remaining>>
    BY DEF Scan, UsbInit, EfexInit, BadCommand, Version, OpenLoop, Cleanup
  <2> QED BY <2>1, <2>2, <2>3 DEF IInv, TypeOK
<1>2. HeldInv'
  <2>1. CASE Scan
    BY <2>1 DEF IInv, HeldInv, Released, LeftBehind, ScanLeaves, Scan
  <2>2. CASE UsbInit \/ EfexInit
    BY <2>2 DEF IInv, HeldInv, Released, LeftBehind, UsbInit, EfexInit
  <2>3. CASE BadCommand \/ Version \/ OpenLoop
    BY <2>3 DEF IInv, HeldInv, Released, BadCommand, Version, OpenLoop
  <2>4. CASE Cleanup
    BY <2>4 DEF IInv, HeldInv, Released, Cleanup
  <2> QED BY <2>1, <2>2, <2>3, <2>4
<1>3. Accounts'
  BY DEF IInv, Accounts, Offset, LoopCmds, Scan, UsbInit, EfexInit, BadCommand, Version, OpenLoop,
         Cleanup
<1>4. Told'
  <2>1. UNCHANGED <<args, moved, FilesNoticed, Wanted>> /\ \A n : Beginning(n)' = Beginning(n)
    BY DEF Scan, UsbInit, EfexInit, BadCommand, Version, OpenLoop, Cleanup, FilesNoticed, Wanted,
           Beginning, Bytes
  <2>2. CASE Scan \/ UsbInit \/ EfexInit \/ BadCommand
    <3>1. \E n \in 0..args.length : moved = Beginning(n)
      BY <2>2, NothingMoved DEF IInv, Accounts, Scan, UsbInit, EfexInit, BadCommand
    <3>2. pc' \in {"usb_init", "efex_init", "command"} \/ exit_code' # 0
      BY <2>2 DEF Scan, UsbInit, EfexInit, BadCommand
    <3>3. pc' \notin {"loop", "transfer", "save"}
      BY <2>2 DEF Scan, UsbInit, EfexInit, BadCommand
    <3> QED BY <2>1, <3>1, <3>2, <3>3 DEF Told
  <2>3. CASE Version
    BY <2>3, <2>1 DEF Version, Told, LoopCmds, ReadCmds
  <2>4. CASE OpenLoop
    <3>1. moved = Beginning(Offset) /\ Offset' = Offset
      BY <2>4, NoBytes, ArgFacts DEF OpenLoop, IInv, Accounts, Beginning, Offset
    <3> QED BY <2>1, <2>4, <3>1 DEF OpenLoop, Told
  <2>5. CASE Cleanup
    BY <2>1, <2>5 DEF Cleanup, IInv, Told
  <2> QED BY <2>2, <2>3, <2>4, <2>5
<1> QED BY <1>1, <1>2, <1>3, <1>4 DEF IInv

LEMMA SingleFits ==
  ASSUME IInv, UNCHANGED rust, UNCHANGED file_failed, Single
  PROVE  IInv'
<1> USE DEF Goto, Exit, Opening, Looping, Single
<1>1. TypeOK' /\ HeldInv'
  BY DEF IInv, TypeOK, Pcs, HeldInv, Released
<1>2. Accounts'
  BY DEF IInv, Accounts, Offset
<1>3. args.cmd \notin LoopCmds /\ pc' = "cleanup"
  BY DEF LoopCmds, ReadCmds, SingleCmds
<1> QED BY <1>1, <1>2, <1>3 DEF IInv, Told

LEMMA LoopFits ==
  ASSUME IInv, UNCHANGED rust, UNCHANGED file_failed, Loop
  PROVE  IInv'
<1> USE DEF Goto, Locals, Opening, Looping, Loop, LoopEnds
<1>1. TypeOK' /\ HeldInv'
  BY DEF IInv, TypeOK, Pcs, HeldInv, Released, CloseLoop
<1>2. Accounts'
  BY ArgFacts DEF IInv, Accounts, Offset
<1>3. UNCHANGED <<args, moved, FilesNoticed, Wanted, Offset>>
      /\ \A n : Beginning(n)' = Beginning(n)
  BY DEF FilesNoticed, Wanted, Beginning, Bytes, Offset
<1>4. CASE remaining = 0
  <2>1. Offset = args.length /\ Offset \in 0..args.length /\ Wanted = Beginning(Offset)
    BY <1>4, ArgFacts DEF IInv, Offset, Wanted, Beginning
  <2> QED BY <1>1, <1>2, <1>3, <1>4, <2>1 DEF IInv, Told
<1>5. CASE remaining # 0
  BY <1>1, <1>2, <1>3, <1>5 DEF IInv, Told
<1> QED BY <1>4, <1>5

LEMMA ReadChunkFits ==
  ASSUME IInv, UNCHANGED rust, UNCHANGED file_failed, ReadChunk
  PROVE  IInv'
<1> USE DEF Goto, Exit, Opening, Looping, ReadChunk, ReadFails
<1>1. TypeOK' /\ HeldInv'
  <2>1. pc' \in Pcs /\ exit_code' \in 0..5
    BY DEF IInv, TypeOK, Pcs
  <2>2. held' \subseteq Resources /\ HeldInv'
    BY DEF IInv, TypeOK, HeldInv, Released, CloseLoop
  <2>3. UNCHANGED <<args, cur, remaining>>
    OBVIOUS
  <2> QED BY <2>1, <2>2, <2>3 DEF IInv, TypeOK
<1>2. Accounts'
  BY DEF IInv, Accounts, Offset
<1>3. UNCHANGED <<args, moved, FilesNoticed, Wanted, Offset>>
      /\ \A n : Beginning(n)' = Beginning(n)
  BY DEF FilesNoticed, Wanted, Beginning, Bytes, Offset
<1>4. Offset \in 0..args.length
  BY ArgFacts DEF IInv, Accounts, Offset
<1>5. exit_code' # 0 \/ pc' = "save"
  OBVIOUS
<1> QED BY <1>1, <1>2, <1>3, <1>4, <1>5 DEF IInv, Told

(* A chunk of n bytes is where it belongs; its first k bytes are moved.    *)
LEMMA SaveChunkFits ==
  ASSUME IInv, UNCHANGED rust, UNCHANGED file_failed, SaveChunk
  PROVE  IInv'
<1> USE DEF Goto, Opening, Looping, SaveChunk, Advance
<1>n. PICK n : n = Least(remaining, Chunk)
  OBVIOUS
<1>1. /\ n \in 1..remaining /\ Offset \in Nat /\ Offset + n <= args.length
      /\ args.length - (remaining - n) = Offset + n
      /\ (cur + n) % Word \in 0..Word-1
      /\ (cur + n) % Word = (args.address + (Offset + n)) % Word
      /\ Beginning(Offset) \o Bytes(cur, Offset, n) = Beginning(Offset + n)
  BY <1>n, ChunkFacts, WholeChunk DEF IInv, Accounts
<1>2. Offset' = Offset + n /\ remaining' = remaining - n /\ cur' = (cur + n) % Word
  BY <1>1, <1>n DEF Offset
<1>3. TypeOK' /\ HeldInv'
  <2>1. HeldInv'
    <3>1. pc = "save" /\ pc' = "loop" /\ UNCHANGED <<rust, held>>
      OBVIOUS
    <3> HIDE DEF Goto, SaveChunk, Advance
    <3> QED BY <3>1 DEF IInv, HeldInv, Released
  <2>2. cur' \in 0..Word-1 /\ remaining' \in Nat
    <3>1. remaining' \in Nat
      BY <1>1, <1>2, LessRemains, Zenon DEF IInv, SaveChunk
    <3> QED BY <1>1, <1>2, <3>1, Zenon
  <2>3. pc' \in Pcs /\ UNCHANGED <<rust, args, held, exit_code, file_failed>>
    BY DEF Pcs
  <2> QED BY <2>1, <2>2, <2>3 DEF IInv, TypeOK
<1>4. Accounts'
  <2>1. cur' = (args'.address + Offset') % Word
    BY <1>1, <1>2, Zenon DEF SaveChunk
  <2>2. remaining' <= args'.length
    BY <1>1, <1>2, LessRemains DEF IInv, SaveChunk
  <2>3. exit_code' = 0 /\ args'.cmd \in LoopCmds
    BY DEF IInv, Accounts
  <2> QED BY <2>1, <2>2, <2>3 DEF Accounts
<1>5. UNCHANGED <<args, FilesNoticed, Wanted>> /\ \A k : Beginning(k)' = Beginning(k)
  BY DEF FilesNoticed, Wanted, Beginning, Bytes
<1>6. FilesNoticed => moved' = Beginning(Offset')
  BY <1>1, <1>2, <1>n DEF IInv, Told, Accounts
<1> QED BY <1>3, <1>4, <1>5, <1>6 DEF IInv, Told

LEMMA WriteChunkFits ==
  ASSUME IInv, UNCHANGED rust, UNCHANGED file_failed, WriteChunk
  PROVE  IInv'
<1> USE DEF Goto, Exit, Opening, Looping
<1>0. pc = "transfer" /\ UNCHANGED <<args, chunk>> /\ remaining > 0
  BY DEF WriteChunk, IInv, Accounts
<1>2. UNCHANGED <<args, FilesNoticed, Wanted>> /\ \A k : Beginning(k)' = Beginning(k)
  BY <1>0 DEF FilesNoticed, Wanted, Beginning, Bytes
<1>3. ASSUME NEW n \in 1..Least(remaining, Chunk),
             moved' = moved \o Bytes(cur, Offset, n), Advance(n), Goto("loop"), UNCHANGED held
      PROVE  IInv'
  <2>0. /\ n \in 1..remaining /\ Offset \in Nat /\ Offset + n <= args.length
        /\ args.length - (remaining - n) = Offset + n
        /\ (cur + n) % Word \in 0..Word-1
        /\ (cur + n) % Word = (args.address + (Offset + n)) % Word
        /\ Beginning(Offset) \o Bytes(cur, Offset, n) = Beginning(Offset + n)
    BY <1>0, <1>3, ChunkFacts DEF IInv, Accounts
  <2>1. Offset' = Offset + n /\ remaining' = remaining - n /\ cur' = (cur + n) % Word
    BY <1>0, <2>0, <1>3 DEF Advance, Offset
  <2>2. TypeOK' /\ HeldInv'
    BY <1>0, <2>0, <1>3, <2>1, ArgFacts DEF IInv, TypeOK, Pcs, HeldInv, Released
  <2>3. Accounts'
    <3>1. cur' = (args'.address + Offset') % Word
      BY <1>0, <2>0, <2>1, Zenon
    <3>2. remaining' <= args'.length
      BY <1>0, <2>0, <2>1, LessRemains DEF IInv
    <3>3. exit_code' = 0 /\ args'.cmd \in LoopCmds
      BY <1>0, <1>3 DEF IInv, Accounts
    <3> QED BY <1>3, <3>1, <3>2, <3>3 DEF Accounts
  <2>4. FilesNoticed => moved' = Beginning(Offset')
    BY <1>0, <2>0, <1>3, <2>1 DEF IInv, Told
  <2> QED BY <1>2, <1>3, <2>2, <2>3, <2>4 DEF IInv, Told
<1>4. CASE Exit("cleanup", 5) /\ CloseLoop /\ UNCHANGED <<cur, remaining, moved>>
  <2>1. TypeOK' /\ HeldInv'
    BY <1>0, <1>4 DEF IInv, TypeOK, Pcs, HeldInv, Released, CloseLoop
  <2>2. Accounts'
    BY <1>0, <1>4 DEF IInv, Accounts, Offset
  <2>3. Offset \in 0..args.length /\ exit_code' # 0
    BY <1>4, ArgFacts DEF IInv, Accounts, Offset
  <2> QED BY <1>0, <1>2, <1>4, <2>1, <2>2, <2>3 DEF IInv, Told
<1> QED BY <1>3, <1>4 DEF WriteChunk

(* Where a file fails, C does not notice and nothing is claimed; Rust ends *)
(* with an error, after a beginning of the chunk.                          *)
LEMMA SaveFailsFits ==
  ASSUME IInv, UNCHANGED rust, SaveFails
  PROVE  IInv'
<1> USE DEF Goto, Exit, Opening, Looping
<1>n. PICK n : n = Least(remaining, Chunk)
  OBVIOUS
<1>0. pc = "save" /\ file_failed' = TRUE /\ UNCHANGED args /\ chunk = Bytes(cur, Offset, n)
  BY <1>n DEF SaveFails, IInv, Accounts
<1>1. /\ n \in 1..remaining /\ Offset \in Nat /\ Offset + n <= args.length
      /\ args.length - (remaining - n) = Offset + n
      /\ (cur + n) % Word \in 0..Word-1
      /\ (cur + n) % Word = (args.address + (Offset + n)) % Word
  BY <1>0, <1>n, ChunkFacts, WholeChunk DEF IInv, Accounts
<1>2. PICK k \in 0..(Len(chunk) - 1) : moved' = moved \o SubSeq(chunk, 1, k)
  BY DEF SaveFails
<1>3. Offset \in Int /\ cur \in Int /\ n \in Nat
  BY <1>1, ArgFacts DEF IInv
<1>4. k \in 0..n /\ SubSeq(chunk, 1, k) = Bytes(cur, Offset, k)
  <2>1. Len(chunk) = n
    BY <1>0, <1>3, BytesFacts
  <2>2. k \in 0..n
    BY <1>2, <1>3, <2>1
  <2> QED BY <1>0, <1>3, <2>2, BytesBeginning
<1>5. Beginning(Offset) \o Bytes(cur, Offset, k) = Beginning(Offset + k)
  BY <1>0, <1>n, <1>4, ChunkFacts, WholeChunk DEF IInv, Accounts
<1>6. args.length \in Nat
  BY ArgFacts DEF IInv
<1>7. CASE rust
  <2>1. Exit("cleanup", 1) /\ CloseLoop /\ UNCHANGED <<cur, remaining>>
    BY <1>7 DEF SaveFails
  <2>2. TypeOK' /\ HeldInv'
    BY <1>0, <2>1 DEF IInv, TypeOK, Pcs, HeldInv, Released, CloseLoop
  <2>3. Accounts'
    BY <1>0, <2>1 DEF IInv, Accounts, Offset
  <2>4. moved' = Beginning(Offset + k)' /\ Offset + k \in 0..args.length
    <3>1. moved' = Beginning(Offset) \o Bytes(cur, Offset, k)
      BY <1>0, <1>2, <1>4, <1>7 DEF IInv, Told, FilesNoticed
    <3>2. moved' = Beginning(Offset + k)
      BY <1>5, <3>1
    <3>3. Beginning(Offset + k)' = Beginning(Offset + k)
      BY <1>0, <2>1 DEF Beginning, Bytes, Offset
    <3>4. Offset + k \in 0..args.length
      BY <1>1, <1>4, <1>6
    <3> QED BY <3>2, <3>3, <3>4
  <2>5. \E j \in 0..args'.length : moved' = Beginning(j)'
    BY <1>0, <2>1, <2>4 DEF Beginning, Bytes, Offset
  <2> QED BY <2>1, <2>2, <2>3, <2>5 DEF IInv, Told
<1>8. CASE ~rust
  <2>1. Advance(n) /\ Goto("loop") /\ UNCHANGED held
    BY <1>8, <1>n DEF SaveFails
  <2>2. Offset' = Offset + n /\ remaining' = remaining - n /\ cur' = (cur + n) % Word
    BY <1>0, <1>1, <2>1 DEF Advance, Offset
  <2>3. TypeOK' /\ HeldInv'
    BY <1>0, <1>1, <2>1, <2>2, ArgFacts DEF IInv, TypeOK, Pcs, HeldInv, Released
  <2>4. Accounts'
    <3>1. cur' = (args'.address + Offset') % Word
      BY <1>0, <1>1, <2>2, Zenon
    <3>2. remaining' <= args'.length
      BY <1>0, <1>1, <2>2, LessRemains DEF IInv
    <3>3. exit_code' = 0 /\ args'.cmd \in LoopCmds
      BY <1>0, <2>1 DEF IInv, Accounts
    <3> QED BY <2>1, <3>1, <3>2, <3>3 DEF Accounts
  <2> QED BY <1>0, <1>8, <2>3, <2>4 DEF IInv, Told, FilesNoticed
<1> QED BY <1>7, <1>8

LEMMA FileReadFailsFits ==
  ASSUME IInv, UNCHANGED rust, FileReadFails
  PROVE  IInv'
<1> USE DEF Goto, Exit, Opening, Looping, FileReadFails, Locals
<1>1. TypeOK' /\ HeldInv'
  BY DEF IInv, TypeOK, Pcs, HeldInv, Released, CloseLoop
<1>2. Accounts'
  BY DEF IInv, Accounts, Offset
<1>3. UNCHANGED <<args, moved, Wanted>> /\ \A n : Beginning(n)' = Beginning(n)
  BY DEF Wanted, Beginning, Bytes
<1>4. FilesNoticed' => rust /\ exit_code' = 1 /\ moved = Beginning(Offset)
  BY DEF FilesNoticed, IInv, Told
<1>5. Offset \in 0..args.length
  BY ArgFacts DEF IInv, Accounts, Offset
<1> QED BY <1>1, <1>2, <1>3, <1>4, <1>5 DEF IInv, Told

LEMMA IInvNext == IInv /\ [Next]_vars => IInv'
<1> SUFFICES ASSUME IInv, [Next]_vars PROVE IInv'
  OBVIOUS
<1>1. CASE Next
  BY <1>1, OpeningStep, SingleFits, LoopFits, ReadChunkFits, SaveChunkFits, WriteChunkFits,
     SaveFailsFits, FileReadFailsFits DEF Next, Step
<1>2. CASE UNCHANGED vars
  BY <1>2 DEF vars, IInv, TypeOK, HeldInv, Released, LeftBehind, Accounts, Told, Offset,
       FilesNoticed, Wanted,
       Beginning, Bytes
<1> QED BY <1>1, <1>2

LEMMA Invariance == Spec => []IInv
  BY InitFits, IInvNext, PTL DEF Spec

(***************************************************************************)
(* Theorems, for every word and chunk size and every range.                *)
(***************************************************************************)

(* Type correctness of the command lines.                                  *)
THEOREM TypeCorrect == Spec => []TypeOK
<1>1. IInv => TypeOK
  BY DEF IInv
<1> QED BY <1>1, Invariance, PTL

(* What a run of read, dump, hexdump or write moved is a beginning of its  *)
(* range, and all of it if the program exits with 0, wherever the range    *)
(* wraps and whichever step failed.                                        *)
THEOREM ExitTells == Spec => []ExitTellsMoved
<1>1. IInv => ExitTellsMoved
  BY DEF IInv, Told, ExitTellsMoved, LoopCmds, Beginning
<1> QED BY <1>1, Invariance, PTL

(* A program that has ended has released everything it opened, but for     *)
(* what a failed scan or init leaves and LeftBehind names.                 *)
THEOREM ReleasesAll == Spec => []Released
<1>1. IInv => Released
  BY DEF IInv, HeldInv
<1> QED BY <1>1, Invariance, PTL

(***************************************************************************)
(* The flashing flow.                                                      *)
(***************************************************************************)

(* The last commands that the device carried out, all in connection c.     *)
EndsWith(steps, c) ==
  LET n == Len(carried)
      m == Len(steps)
  IN n >= m /\ \A i \in 1..m : carried[n - m + i] = <<steps[i], c>>

(* The handle is that of the connection, and what comes on it answers the  *)
(* call that reads it.                                                     *)
Straight == hdl = conn /\ ~late

(* The image follows the size on one handle, and a handle serves one       *)
(* connection; with an answer still on its way nothing is known, and the   *)
(* verification will fail.  The code of main is set at its end.            *)
SentInv ==
  /\ place = "image" /\ Straight => EndsWith(<<"size">>, hdl)
  /\ place = "verify" /\ Straight => EndsWith(<<"size", "image">>, hdl)
  /\ place = "done" /\ ret = "OK" => EndsWith(<<"size", "image", "verify">>, hdl)
  /\ place # "done" => ret = "none"

(* The strengthening.                                                      *)
FlowInv == FlowTypeOK /\ BackInFesMode /\ SentInv

LEMMA StepNames ==
  /\ FelPcs = {"clear_dram", "write_fes1", "exec_fes1", "read_dram", "write_uboot",
              "exec_uboot"}
  /\ FesPcs = {"erase", "size", "image", "verify"}
  /\ DOMAIN FelSteps = 1..6 /\ DOMAIN FesSteps = 1..4
  /\ Len(FelSteps) = 6 /\ Len(FesSteps) = 4
  /\ FesSteps[1] = "erase" /\ FesSteps[2] = "size" /\ FesSteps[3] = "image"
  /\ FesSteps[4] = "verify"
  /\ \A i \in 1..6 : FelSteps[i] \in FelPcs
<1>1. /\ DOMAIN FelSteps = 1..6 /\ DOMAIN FesSteps = 1..4
      /\ Len(FelSteps) = 6 /\ Len(FesSteps) = 4
  BY DEF FelSteps, FesSteps
<1>2. /\ FelSteps[1] = "clear_dram" /\ FelSteps[2] = "write_fes1"
      /\ FelSteps[3] = "exec_fes1" /\ FelSteps[4] = "read_dram"
      /\ FelSteps[5] = "write_uboot" /\ FelSteps[6] = "exec_uboot"
      /\ FesSteps[1] = "erase" /\ FesSteps[2] = "size" /\ FesSteps[3] = "image"
      /\ FesSteps[4] = "verify"
  BY DEF FelSteps, FesSteps
<1>3. 1..6 = {1, 2, 3, 4, 5, 6} /\ 1..4 = {1, 2, 3, 4}
  OBVIOUS
<1> QED BY <1>1, <1>2, <1>3 DEF FelPcs, FesPcs

LEMMA FlowStarts == FlowInit => FlowInv
<1> SUFFICES ASSUME FlowInit PROVE FlowInv
  OBVIOUS
<1>1. late \in BOOLEAN
  BY DEF FlowInit
<1>2. FlowTypeOK
  BY <1>1, FlowAssumption, EmptySeq DEF FlowInit, FlowTypeOK, Modes
<1> QED BY <1>2 DEF FlowInit, FlowInv, BackInFesMode, SentInv

(* Steps that carry nothing out, and do not go on in the row of the FES    *)
(* commands but to its start.                                              *)
LEMMA QuietStep ==
  ASSUME FlowInv, FlowTypeOK', BackInFesMode', UNCHANGED carried,
         place' \notin {"image", "verify"}, place' = "done" => ret' # "OK",
         place' # "done" => ret' = "none"
  PROVE  FlowInv'
  BY DEF FlowInv, SentInv

LEMMA OpeningSteps ==
  ASSUME FlowInv,
         \/ ScanDevice \/ OpenDevice \/ InitEfex \/ CloseDevice \/ Wait
         \/ Reinit \/ Reefex \/ Retry \/ Connected
  PROVE  FlowInv'
<1> USE DEF GoOn, Return, Device, Fault, NoFault
<1>1. UNCHANGED <<fw, conn, carried>> /\ place # "done" /\ ret = "none"
  BY DEF FlowInv, SentInv, ScanDevice, OpenDevice, InitEfex, CloseDevice, Wait, Reinit, Reefex,
       Retry, Connected
<1>2. /\ place' \in {"usb_init", "efex_init", "clear_dram", "erase", "done", "wait", "reinit",
                   "reefex", "retry", "connected"}
      /\ place' = "done" => ret' = "error"
      /\ place' # "done" => ret' = "none"
  BY <1>1, StepNames DEF ScanDevice, OpenDevice, InitEfex, CloseDevice, Wait, Reinit, Reefex,
       Retry, Connected, FelSteps
<1>3. /\ hdl' \in {0, hdl, conn} /\ mode' \in Modes /\ faults' \in 0..MaxFaults
      /\ late' \in BOOLEAN
  <2>1. hdl' \in {0, hdl, conn} /\ mode' \in {mode, fw}
    <3>1. CASE ~Reefex
      BY <3>1 DEF ScanDevice, OpenDevice, InitEfex, CloseDevice, Wait, Reinit, Retry, Connected
    <3>2. CASE Reefex
      BY <3>2, Zenon DEF Reefex
    <3> QED BY <3>1, <3>2
  <2>2. faults' \in 0..MaxFaults
    <3> HIDE DEF GoOn, Return, Device, Fault, NoFault
    <3>1. Fault \/ NoFault \/ UNCHANGED faults
      BY Zenon DEF ScanDevice, OpenDevice, InitEfex, CloseDevice, Wait, Reinit, Reefex, Retry,
                   Connected
    <3> QED BY <3>1, FlowAssumption DEF FlowInv, FlowTypeOK, Fault, NoFault
  <2>3. late \in BOOLEAN
    BY DEF FlowInv, FlowTypeOK
  <2>4. UNCHANGED late \/ Reefex
    <3> HIDE DEF GoOn, Return, Device, Fault, NoFault
    <3> QED BY Zenon DEF ScanDevice, OpenDevice, InitEfex, CloseDevice, Wait, Reinit, Retry,
                         Connected
  <2>5. ASSUME Reefex PROVE late' \in BOOLEAN
    <3>1. late' \in {late, FALSE} \/ late' \in BOOLEAN \/ late' = late \/ late' = TRUE
      BY <2>5, Zenon DEF Reefex, MayLeaveAnswer
    <3> QED BY <2>3, <3>1, Zenon
  <2>6. late' \in BOOLEAN
    BY <2>3, <2>4, <2>5, Zenon
  <2>7. mode' \in Modes
    BY <2>1 DEF FlowInv, FlowTypeOK
  <2> QED BY <2>1, <2>2, <2>6, <2>7
<1>4. FlowTypeOK'
  <2>1. conn \in Nat /\ hdl' \in 0..conn
    BY <1>3, FlowAssumption DEF FlowInv, FlowTypeOK
  <2> QED BY <1>1, <1>2, <1>3, <2>1, StepNames DEF FlowInv, FlowTypeOK, WaitPcs
<1>5. BackInFesMode'
  <2>1. place' = "connected" => Reefex /\ EndsWait(fw) /\ mode' = fw
    BY DEF ScanDevice, OpenDevice, InitEfex, CloseDevice, Wait, Reinit, Reefex, Retry,
         Connected, FelSteps
  <2> QED BY <1>1, <2>1 DEF BackInFesMode, EndsWait
<1> QED BY <1>1, <1>2, <1>4, <1>5, QuietStep

LEMMA FelCommandFits ==
  ASSUME FlowInv, FelCommand
  PROVE  FlowInv'
<1> USE DEF GoOn, Device, Fault, NoFault
<1>1. PICK i \in 1..6 : FelStep(i)
  BY StepNames DEF FelCommand
<1>2. place \in FelPcs /\ UNCHANGED <<conn, mode, late, carried, ret>> /\ ret = "none"
  BY <1>1, StepNames DEF FelStep, BringUpFails, FlowInv, SentInv
<1>3. place' \in FelPcs \cup {"exit", "erase"}
  <2>1. i < 6 => i + 1 \in 1..6
    OBVIOUS
  <2> QED BY <1>1, <2>1, StepNames DEF FelStep, BringUpFails
<1>4. hdl' \in {0, hdl} /\ fw' \in {fw, "none"} /\ faults' \in 0..MaxFaults
  BY <1>1, FlowAssumption DEF FelStep, BringUpFails, FlowInv, FlowTypeOK
<1>5. FlowTypeOK'
  <2>1. hdl' \in 0..conn
    BY <1>4, FlowAssumption DEF FlowInv, FlowTypeOK
  <2>2. fw' \in Modes
    BY <1>4 DEF FlowInv, FlowTypeOK, Modes
  <2>3. /\ place' \in {"erase", "exit"} \cup FelPcs
        /\ "erase" \in FesPcs /\ "exit" \in WaitPcs
    BY <1>3, StepNames DEF WaitPcs
  <2> QED BY <1>2, <1>4, <2>1, <2>2, <2>3 DEF FlowInv, FlowTypeOK
<1>6. place' \notin {"connected", "image", "verify", "done"}
  BY <1>3, StepNames
<1> QED BY <1>2, <1>5, <1>6, QuietStep DEF BackInFesMode

(***************************************************************************)
(* A FES command that the device carries out goes to the connection of the *)
(* handle.                                                                 *)
(***************************************************************************)
LEMMA CarriedOut ==
  ASSUME FlowInv, Alive, NEW i \in 1..4,
         carried' = Append(carried, <<FesSteps[i], conn>>)
  PROVE  /\ conn = hdl /\ carried' \in Seq(FesPcs \X (1..MaxBoots))
         /\ Len(carried) \in Nat /\ Len(carried') = Len(carried) + 1
         /\ \A j \in 1..Len(carried) : carried'[j] = carried[j]
         /\ carried'[Len(carried')] = <<FesSteps[i], hdl>>
<1> DEFINE S == FesPcs \X (1..MaxBoots)
           e == <<FesSteps[i], conn>>
<1>1. conn = hdl /\ conn \in 1..MaxBoots /\ carried \in Seq(S)
  BY FlowAssumption DEF FlowInv, Alive, FlowTypeOK
<1>2. e \in S
  BY <1>1, StepNames DEF FesPcs
<1> HIDE DEF S, e
<1>3. Append(carried, e) \in Seq(S) /\ Len(Append(carried, e)) = Len(carried) + 1
      /\ \A j \in 1..Len(carried) : Append(carried, e)[j] = carried[j]
  BY <1>1, <1>2, AppendProperties
<1>4. Append(carried, e)[Len(carried) + 1] = e /\ Len(carried) \in Nat
  BY <1>1, <1>2, AppendProperties, LenProperties
<1>5. carried' = Append(carried, e)
  BY DEF e
<1> QED BY <1>1, <1>3, <1>4, <1>5 DEF S, e

LEMMA FesCommandFits ==
  ASSUME FlowInv, FesCommand
  PROVE  FlowInv'
<1> USE DEF GoOn, Return, Device, Fault, NoFault
<1>1. PICK i \in 1..4 : FesStep(i)
  BY StepNames DEF FesCommand
<1>2. /\ place = FesSteps[i] /\ UNCHANGED <<fw, conn, hdl, mode>>
      /\ ret = "none" /\ place # "done"
  BY <1>1, StepNames DEF FesStep, FlowInv, SentInv
<1>3. faults' \in 0..MaxFaults /\ late' \in BOOLEAN
  <2>1. faults' \in 0..MaxFaults
    BY <1>1, FlowAssumption DEF FesStep, FlowInv, FlowTypeOK
  <2>2. late \in BOOLEAN
    BY DEF FlowInv, FlowTypeOK
  <2>3. late' = late \/ late' = TRUE
    BY <1>1, Zenon DEF FesStep, MayLeaveAnswer
  <2> QED BY <2>1, <2>2, <2>3, Zenon
<1>4. /\ \/ UNCHANGED carried
         \/ Alive /\ carried' = Append(carried, <<FesSteps[i], conn>>)
      /\ \/ FesFails(i) \/ Return("error")
         \/ /\ Alive /\ ~late /\ carried' = Append(carried, <<FesSteps[i], conn>>)
            /\ FesDone(i)
         \/ late /\ late' /\ TakesAnswer(i) /\ FesDone(i)
  BY <1>1 DEF FesStep
<1>5. carried' \in Seq(FesPcs \X (1..MaxBoots))
  BY <1>4, CarriedOut DEF FlowInv, FlowTypeOK
<1>6. CASE FesFails(i) \/ Return("error")
  <2>1. (place' = "size" /\ ret' = "none") \/ (place' = "done" /\ ret' = "error")
    BY <1>2, <1>6 DEF FesFails
  <2>2. FlowTypeOK'
    BY <1>2, <1>3, <1>5, <2>1, StepNames DEF FlowInv, FlowTypeOK
  <2> QED BY <2>1, <2>2 DEF FlowInv, BackInFesMode, SentInv
<1>7. CASE late /\ late' /\ TakesAnswer(i) /\ FesDone(i)
  <2>1. i # 4
    BY <1>7, StepNames DEF TakesAnswer
  <2>2. place' \in {"size", "image", "verify"} /\ ret' = "none" /\ ~Straight'
    BY <1>2, <1>7, <2>1, StepNames DEF FesDone, Straight
  <2>3. FlowTypeOK'
    BY <1>2, <1>3, <1>5, <2>2, StepNames DEF FlowInv, FlowTypeOK
  <2> QED BY <2>2, <2>3 DEF FlowInv, BackInFesMode, SentInv
<1>8. CASE Alive /\ ~late /\ carried' = Append(carried, <<FesSteps[i], conn>>) /\ FesDone(i)
  <2>0. Straight
    BY <1>8 DEF Straight, Alive
  <2>1. /\ i = 1 => place' = "size" /\ ret' = "none"
        /\ i = 2 => place = "size" /\ place' = "image" /\ ret' = "none"
        /\ i = 3 => place = "image" /\ place' = "verify" /\ ret' = "none"
        /\ i = 4 => place = "verify" /\ place' = "done" /\ ret' = "OK"
    BY <1>2, <1>8, StepNames DEF FesDone
  <2>2. FlowTypeOK'
    BY <1>2, <1>3, <1>5, <2>1, StepNames DEF FlowInv, FlowTypeOK
  <2>3. /\ Len(carried) \in Nat /\ Len(carried') = Len(carried) + 1
        /\ \A j \in 1..Len(carried) : carried'[j] = carried[j]
        /\ carried'[Len(carried')] = <<FesSteps[i], hdl>>
    BY <1>8, CarriedOut DEF FlowInv
  <2>4. CASE i = 1
    BY <2>1, <2>2, <2>4 DEF FlowInv, BackInFesMode, SentInv
  <2>5. CASE i = 2
    <3>1. EndsWith(<<"size">>, hdl)'
      BY <1>2, <2>3, <2>5, StepNames DEF EndsWith
    <3> QED BY <2>1, <2>2, <2>5, <3>1 DEF FlowInv, BackInFesMode, SentInv
  <2>6. CASE i = 3
    <3>1. EndsWith(<<"size">>, hdl)
      BY <2>0, <2>1, <2>6 DEF FlowInv, SentInv
    <3>2. carried[Len(carried)] = <<"size", hdl>> /\ Len(carried) >= 1
      BY <2>3, <3>1 DEF EndsWith
    <3>3. EndsWith(<<"size", "image">>, hdl)'
      BY <3>2, <1>2, <2>3, <2>6, <3>1, StepNames DEF EndsWith
    <3> QED BY <2>1, <2>2, <2>6, <3>3 DEF FlowInv, BackInFesMode, SentInv
  <2>7. CASE i = 4
    <3>1. EndsWith(<<"size", "image">>, hdl)
      BY <2>0, <2>1, <2>7 DEF FlowInv, SentInv
    <3>2. /\ Len(carried) >= 2
          /\ carried[Len(carried) - 1] = <<"size", hdl>>
          /\ carried[Len(carried)] = <<"image", hdl>>
      BY <2>3, <3>1 DEF EndsWith
    <3>3. EndsWith(<<"size", "image", "verify">>, hdl)'
      <4> DEFINE n == Len(carried')
      <4>1. /\ n >= 3 /\ carried'[n - 2] = <<"size", hdl>> /\ carried'[n - 1] = <<"image", hdl>>
            /\ carried'[n] = <<"verify", hdl>>
        BY <2>3, <2>7, <3>2, StepNames
      <4>2. n - 3 + 1 = n - 2 /\ n - 3 + 2 = n - 1 /\ n - 3 + 3 = n
        BY <2>3
      <4> QED BY <1>2, <4>1, <4>2 DEF EndsWith
    <3> QED BY <2>1, <2>2, <2>7, <3>3 DEF FlowInv, BackInFesMode, SentInv
  <2> QED BY <2>4, <2>5, <2>6, <2>7
<1> QED BY <1>4, <1>6, <1>7, <1>8

(* The device's own doing ends a connection; handles of it stay behind.    *)
LEMMA DeviceFits ==
  ASSUME FlowInv, DeviceLeaves \/ DeviceBoots
  PROVE  FlowInv'
<1>1. UNCHANGED <<place, hdl, mode, carried, ret, faults>>
  BY DEF DeviceLeaves, DeviceBoots
<1>2. CASE DeviceLeaves
  <2>1. FlowTypeOK'
    <3>1. UNCHANGED <<conn, late>> /\ fw' \in Modes
      BY <1>2 DEF DeviceLeaves, Modes
    <3> QED BY <1>1, <3>1 DEF FlowInv, FlowTypeOK
  <2>2. SentInv'
    BY <1>1, <1>2 DEF FlowInv, SentInv, Straight, EndsWith, DeviceLeaves
  <2> QED BY <1>1, <1>2, <2>1, <2>2 DEF DeviceLeaves, FlowInv, BackInFesMode
<1>3. CASE DeviceBoots
  <2>1. conn' = conn + 1 /\ conn' \in 0..MaxBoots /\ hdl \in 0..conn /\ fw' \in Firmwares
    BY <1>3, FlowAssumption DEF DeviceBoots, FlowInv, FlowTypeOK
  <2>2. FlowTypeOK'
    <3>1. late' \in BOOLEAN
      BY <1>3 DEF DeviceBoots
    <3>2. conn \in Nat /\ hdl' \in 0..conn' /\ fw' \in Modes
      BY <1>1, <2>1, FlowAssumption DEF FlowInv, FlowTypeOK, Modes
    <3> QED BY <1>1, <2>1, <3>1, <3>2 DEF FlowInv, FlowTypeOK
  <2>3. hdl' # conn'
    BY <1>1, <2>1, FlowAssumption DEF FlowInv, FlowTypeOK
  <2>4. SentInv'
    BY <1>1, <2>3 DEF FlowInv, SentInv, Straight, EndsWith
  <2> QED BY <2>2, <2>3, <2>4 DEF FlowInv, BackInFesMode
<1> QED BY <1>2, <1>3

LEMMA FlowStays == FlowInv /\ [FlowNext]_(flow_vars) => FlowInv'
<1> SUFFICES ASSUME FlowInv, [FlowNext]_(flow_vars) PROVE FlowInv'
  OBVIOUS
<1>1. CASE FlowNext
  BY <1>1, OpeningSteps, FelCommandFits, FesCommandFits, DeviceFits DEF FlowNext, Host
<1>2. CASE UNCHANGED flow_vars
  BY <1>2 DEF flow_vars, FlowInv, FlowTypeOK, BackInFesMode, SentInv, Straight, EndsWith
<1> QED BY <1>1, <1>2

LEMMA FlowInvariance == FlowSpec => []FlowInv
  BY FlowStarts, FlowStays, PTL DEF FlowSpec

(* Type correctness of the flashing flow, for any number of reboots and    *)
(* failing calls.                                                          *)
THEOREM FlowTypeCorrect == FlowSpec => []FlowTypeOK
<1>1. FlowInv => FlowTypeOK
  BY DEF FlowInv
<1> QED BY <1>1, FlowInvariance, PTL

(* When init_device_fes says that the device is back in FES mode, it is,   *)
(* unless it has left again since.                                         *)
THEOREM FlowIsBack == FlowSpec => []BackInFesMode
<1>1. FlowInv => BackInFesMode
  BY DEF FlowInv
<1> QED BY <1>1, FlowInvariance, PTL

(* When main returns 0, size, image and verification were carried out one  *)
(* after the other in one connection.                                      *)
THEOREM FlowSentImage == FlowSpec => []ExitZeroMeansImage
<1>1. FlowInv => ExitZeroMeansImage
  <2> SUFFICES ASSUME FlowInv, place = "done", ret = "OK"
               PROVE  LET n == Len(carried)
                      IN /\ n >= 3
                         /\ \A i \in 1..3 :
                              carried[n - 3 + i] = <<FesSteps[i + 1], carried[n][2]>>
    BY DEF ExitZeroMeansImage
  <2>1. EndsWith(<<"size", "image", "verify">>, hdl)
    BY DEF FlowInv, SentInv
  <2>2. Len(carried) \in Nat
    BY LenProperties DEF FlowInv, FlowTypeOK
  <2>3. /\ Len(carried) >= 3
        /\ carried[Len(carried) - 2] = <<"size", hdl>>
        /\ carried[Len(carried) - 1] = <<"image", hdl>>
        /\ carried[Len(carried)] = <<"verify", hdl>>
    BY <2>1, <2>2 DEF EndsWith
  <2>4. carried[Len(carried)][2] = hdl
    BY <2>3
  <2> QED BY <2>2, <2>3, <2>4, StepNames
<1> QED BY <1>1, FlowInvariance, PTL
=============================================================================
