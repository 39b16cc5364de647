------------------------- MODULE BulkTransferProofs -------------------------
(***************************************************************************)
(* The byte loops for every buffer length, every size of a chunk, and      *)
(* every way of cutting a buffer into requests.                            *)
(***************************************************************************)
EXTENDS BulkTransfer, SequenceTheorems, TLAPS

(* What moved so far is a beginning of the buffer, and while the loop runs *)
(* its locals say how far: what moved, and what is left, is the buffer.    *)
Accounts == result = "busy" => wire = Bytes(0, buf) /\ buf + len = total /\ len > 0

IInv == TypeOK /\ Accounts /\ MovedInOrder /\ SuccessMovedAll

----------------------------------------------------------------------------
(* A stretch of the buffer is a sequence of positions.                     *)
LEMMA BytesSeq ==
  ASSUME NEW o \in Nat, NEW n \in Nat
  PROVE  Bytes(o, n) \in Seq(Nat) /\ Len(Bytes(o, n)) = n /\ DOMAIN Bytes(o, n) = 1..n
<1>1. \A i \in 1..n : o + i \in Nat
  BY SMT
<1>2. Bytes(o, n) \in [1..n -> Nat]
  BY <1>1 DEF Bytes
<1>3. DOMAIN Bytes(o, n) = 1..n
  BY DEF Bytes
<1>4. Bytes(o, n) \in Seq(Nat)
  BY <1>2, SMT
<1> QED BY <1>3, <1>4, SMT

LEMMA BytesNone == ASSUME NEW o \in Nat PROVE Bytes(o, 0) = <<>>
  BY BytesSeq, SMT

(* Adjacent stretches join.                                                *)
LEMMA BytesJoin ==
  ASSUME NEW b \in Nat, NEW n \in Nat
  PROVE  Bytes(0, b) \o Bytes(b, n) = Bytes(0, b + n)
<1> DEFINE s == Bytes(0, b)
           t == Bytes(b, n)
           u == Bytes(0, b + n)
<1>1. s \in Seq(Nat) /\ Len(s) = b /\ \A i \in 1..b : s[i] = i
  BY BytesSeq, SMT DEF Bytes
<1>2. t \in Seq(Nat) /\ Len(t) = n /\ \A i \in 1..n : t[i] = b + i
  BY BytesSeq, SMT DEF Bytes
<1>3. u \in Seq(Nat) /\ Len(u) = b + n /\ \A i \in 1..(b + n) : u[i] = i
  <2>1. b + n \in Nat
    BY SMT
  <2> QED BY <2>1, BytesSeq, SMT DEF Bytes
<1> HIDE DEF s, t, u
<1>4. s \o t \in Seq(Nat) /\ Len(s \o t) = b + n
  BY <1>1, <1>2, SMT
<1>5. \A i \in 1..(b + n) : (s \o t)[i] = u[i]
  BY <1>1, <1>2, <1>3, SMT
<1>6. s \o t = u
  BY <1>3, <1>4, <1>5, SeqEqual
<1> QED BY <1>6 DEF s, t, u

(* An empty stretch is the only empty sequence.                            *)
LEMMA BytesSome ==
  ASSUME NEW n \in Nat, n > 0
  PROVE  Bytes(0, n) # <<>>
  BY BytesSeq, SMT

(* A request stays within what is left and joins on to what moved.         *)
LEMMA RequestFacts ==
  ASSUME TypeOK, Accounts, result = "busy"
  PROVE  /\ Request \in Nat /\ Request <= len
         /\ \A n \in 0..Request :
              n \in Nat /\ len - n \in Nat /\ buf + n \in Nat /\ buf + n <= total
         /\ \A n \in 0..Request : wire \o Bytes(buf, n) = Bytes(0, buf + n)
<1>1. Request \in Nat /\ Request <= len /\ len \in Nat /\ buf \in Nat /\ total \in Nat
  BY BulkAssumption DEF Request, TypeOK, Accounts
<1>2. \A n \in 0..Request : n \in Nat /\ len - n \in Nat /\ buf + n \in Nat /\ buf + n <= total
  BY <1>1 DEF Accounts
<1>3. \A n \in 0..Request : wire \o Bytes(buf, n) = Bytes(0, buf + n)
  BY <1>1, <1>2, BytesJoin DEF Accounts
<1> QED BY <1>1, <1>2, <1>3

----------------------------------------------------------------------------
(* The invariant holds initially.                                          *)
LEMMA IInvInit == Init => IInv
<1> SUFFICES ASSUME Init PROVE IInv
  OBVIOUS
<1>1. TypeOK
  <2>1. wire \in Seq(Nat)
    BY SMT DEF Init
  <2>2. winusb \in BOOLEAN /\ dir \in {"send", "recv"} /\ empties \in 0..MaxEmpties
    BY BulkAssumption DEF Init
  <2>3. result \in {"idle", "busy", "NULL_PTR", "SUCCESS"} \cup Errors
    BY DEF Init
  <2>4. silent \in BOOLEAN /\ total \in Nat /\ len \in Nat /\ buf \in Nat
    BY DEF Init
  <2> QED BY <2>1, <2>2, <2>3, <2>4 DEF TypeOK
<1>2. MovedInOrder
  BY BytesNone, SMT DEF Init, MovedInOrder
<1> QED BY <1>1, <1>2 DEF Init, IInv, Accounts, SuccessMovedAll

(* Every request, well or not, and the device keep it.                     *)
LEMMA IInvNext == IInv /\ [Next]_vars => IInv'
<1> SUFFICES ASSUME IInv, [Next]_vars PROVE IInv'
  OBVIOUS
<1> USE DEF IInv
<1>0. TypeOK
  OBVIOUS
<1>1. CASE Start
  <2>1. wire' = <<>> /\ buf' = 0 /\ result' = "busy"
    BY <1>1 DEF Start
  <2>2. total' \in Nat /\ len' = total' /\ len' > 0
    BY <1>1, BulkAssumption DEF Start
  <2>3. Bytes(0, 0) = <<>>
    BY BytesNone, SMT
  <2>4. TypeOK'
    <3>1. winusb' \in BOOLEAN /\ dir' \in {"send", "recv"} /\ silent' \in BOOLEAN
      BY <1>0, <1>1, BulkAssumption DEF Start, TypeOK
    <3>2. len' \in Nat /\ buf' \in Nat /\ empties' \in 0..MaxEmpties
      BY <1>1, <2>1, <2>2, BulkAssumption, SMT DEF Start
    <3>3. wire' \in Seq(Nat)
      BY <2>1, SMT
    <3> QED BY <2>1, <2>2, <3>1, <3>2, <3>3 DEF TypeOK
  <2>5. Accounts'
    <3>1. wire' = Bytes(0, buf')
      BY <2>1, <2>3
    <3>2. buf' + len' = total'
      <4>1. \A k \in Nat : 0 + k = k
        BY SMT
      <4> QED BY <2>1, <2>2, <4>1, Zenon
    <3> QED BY <3>1, <3>2, <2>2 DEF Accounts, Bytes
  <2>6. MovedInOrder'
    <3>1. 0 \in 0..total' /\ wire' = Bytes(0, 0)
      BY <2>1, <2>2, <2>3
    <3> QED BY <3>1 DEF MovedInOrder, Bytes
  <2> QED BY <2>1, <2>4, <2>5, <2>6 DEF SuccessMovedAll
<1>2. CASE StartNothing
  <2>1. wire' = <<>> /\ result' = "NULL_PTR" /\ total' = 0
    BY <1>2 DEF StartNothing
  <2>2. Bytes(0, 0) = <<>>
    BY BytesNone, SMT
  <2>3. TypeOK'
    <3>1. winusb' \in BOOLEAN /\ dir' \in {"send", "recv"} /\ silent' \in BOOLEAN
      BY <1>0, <1>2, BulkAssumption DEF StartNothing, TypeOK
    <3>2. total' \in Nat /\ len' \in Nat /\ buf' \in Nat /\ empties' \in 0..MaxEmpties
      BY <1>2, BulkAssumption, SMT DEF StartNothing
    <3>3. wire' \in Seq(Nat)
      BY <2>1, SMT
    <3> QED BY <2>1, <3>1, <3>2, <3>3 DEF TypeOK
  <2>4. MovedInOrder'
    <3>1. 0 \in 0..total' /\ wire' = Bytes(0, 0)
      BY <2>1, <2>2
    <3> QED BY <3>1 DEF MovedInOrder, Bytes
  <2> QED BY <2>1, <2>3, <2>4 DEF SuccessMovedAll, Accounts
<1>3. CASE LoopStep
  <2>1. result = "busy" /\ ~(winusb /\ dir = "recv")
    BY <1>3 DEF LoopStep
  <2>2. PICK n \in 0..Request : /\ Moved(n) /\ CountMoved(n)
                                /\ n = 0 => ~winusb /\ empties < MaxEmpties
                                /\ empties' = IF n = 0 THEN empties + 1 ELSE 0
    BY <1>3 DEF LoopStep
  <2>3. n \in Nat /\ len - n \in Nat /\ buf + n \in Nat /\ buf + n <= total
        /\ wire \o Bytes(buf, n) = Bytes(0, buf + n)
    BY <2>1, RequestFacts
  <2>4. wire' = Bytes(0, buf + n) /\ buf' = buf + n /\ len' = len - n
        /\ result' = IF len' = 0 THEN "SUCCESS" ELSE "busy"
    BY <2>2, <2>3 DEF Moved, CountMoved
  <2>5. wire' \in Seq(Nat)
    BY <2>3, <2>4, BytesSeq, SMT
  <2>u. UNCHANGED <<winusb, dir, total, silent>>
    BY <1>3 DEF LoopStep
  <2>6. TypeOK'
    <3>1. empties' \in 0..MaxEmpties
      BY <2>2, BulkAssumption DEF TypeOK
    <3> QED BY <2>3, <2>4, <2>5, <2>u, <3>1 DEF TypeOK
  <2>7. Accounts'
    BY <2>1, <2>3, <2>4, <2>u, SMT DEF Accounts, Bytes, TypeOK
  <2>8. MovedInOrder'
    <3>1. buf + n \in 0..total'
      BY <2>3, <2>u, <1>0, SMT DEF TypeOK
    <3> QED BY <2>4, <3>1 DEF MovedInOrder, Bytes
  <2>9. SuccessMovedAll'
    <3>1. ASSUME result' = "SUCCESS" PROVE buf + n = total
      BY <2>1, <2>3, <2>4, <3>1, <1>0, SMT DEF Accounts, TypeOK
    <3>2. (~winusb \/ dir = "send")'
      BY <2>1, <2>u, <1>0 DEF TypeOK
    <3> QED BY <2>4, <2>u, <3>1, <3>2 DEF SuccessMovedAll, Exact, Bytes
  <2> QED BY <2>6, <2>7, <2>8, <2>9
<1>4. CASE WinusbReceive
  <2>1. result = "busy" /\ winusb /\ dir = "recv"
    BY <1>4 DEF WinusbReceive
  <2>2. PICK n \in 1..Request : Moved(n) /\ len' = len - n
    BY <1>4 DEF WinusbReceive
  <2>3. n \in 0..Request
    BY <2>1, RequestFacts, SMT
  <2>4. n \in Nat /\ n > 0 /\ len - n \in Nat /\ buf + n \in Nat /\ buf + n <= total
        /\ wire \o Bytes(buf, n) = Bytes(0, buf + n)
    BY <2>1, <2>3, RequestFacts, SMT
  <2>5. wire' = Bytes(0, buf + n) /\ buf' = buf + n /\ len' = len - n
        /\ result' = "SUCCESS" /\ UNCHANGED <<winusb, dir, total, silent, empties>>
    BY <1>4, <2>2, <2>4 DEF Moved, WinusbReceive
  <2>6. wire' \in Seq(Nat)
    BY <2>4, <2>5, BytesSeq, SMT
  <2>7. TypeOK'
    BY <2>4, <2>5, <2>6 DEF TypeOK
  <2>8. MovedInOrder'
    <3>1. buf + n \in 0..total'
      BY <2>4, <2>5, <1>0, SMT DEF TypeOK
    <3> QED BY <2>5, <3>1 DEF MovedInOrder, Bytes
  <2>9. SuccessMovedAll'
    <3>1. buf + n > 0
      BY <2>4, <1>0, SMT DEF TypeOK
    <3>2. wire' # <<>>
      BY <2>4, <2>5, <3>1, BytesSome
    <3>3. ~Exact'
      BY <2>1, <2>5 DEF Exact
    <3> QED BY <3>2, <3>3 DEF SuccessMovedAll
  <2> QED BY <2>5, <2>7, <2>8, <2>9 DEF Accounts
<1>5. CASE RequestFails
  <2>1. /\ result = "busy" /\ result' \in Errors
        /\ UNCHANGED <<winusb, dir, total, len, buf, silent, empties>>
    BY <1>5 DEF RequestFails, ErrorOf, Errors
  <2>2. PICK n \in 0..Request : wire' = wire \o Bytes(buf, n)
    BY <1>5 DEF RequestFails
  <2>3. n \in Nat /\ buf + n \in Nat /\ buf + n <= total /\ wire' = Bytes(0, buf + n)
    BY <2>1, <2>2, RequestFacts
  <2>4. wire' \in Seq(Nat)
    BY <2>3, BytesSeq, SMT
  <2>5. TypeOK'
    BY <2>1, <2>4 DEF TypeOK
  <2>6. MovedInOrder'
    <3>1. buf + n \in 0..total'
      BY <2>1, <2>3, <1>0, SMT DEF TypeOK
    <3> QED BY <2>3, <3>1 DEF MovedInOrder, Bytes
  <2> QED BY <2>1, <2>5, <2>6 DEF SuccessMovedAll, Accounts, Errors
<1>6. CASE DeviceFalters
  <2>1. UNCHANGED <<winusb, dir, total, len, buf, wire, empties, result>> /\ silent' = ~silent
    BY <1>6 DEF DeviceFalters
  <2>2. TypeOK'
    BY <2>1 DEF TypeOK
  <2> QED
    BY <2>1, <2>2, Zenon DEF Accounts, MovedInOrder, SuccessMovedAll, Exact, Bytes
<1>7. CASE UNCHANGED vars
  <2>1. TypeOK'
    BY <1>7 DEF TypeOK, vars
  <2> QED
    BY <1>7, <2>1, Zenon DEF vars, Accounts, MovedInOrder, SuccessMovedAll, Exact, Bytes
<1> QED BY <1>1, <1>2, <1>3, <1>4, <1>5, <1>6, <1>7 DEF Next, SystemRequest

(* Type correctness for every buffer and chunk size.                       *)
THEOREM TypeCorrect == Spec => []TypeOK
<1>1. IInv => TypeOK
  BY DEF IInv
<1> QED BY IInvInit, IInvNext, <1>1, PTL DEF Spec

(* A success moved all of the buffer, or something of it with the WinUSB   *)
(* receive, and whatever else happened moved a beginning of it.            *)
THEOREM Moves == Spec => [](SuccessMovedAll /\ MovedInOrder)
<1>1. IInv => SuccessMovedAll /\ MovedInOrder
  BY DEF IInv
<1> QED BY IInvInit, IInvNext, <1>1, PTL DEF Spec
----------------------------------------------------------------------------
(* Positions in order measure as many as they are.                         *)
LEMMA ProgressOf == ASSUME NEW n \in Nat PROVE Progress(Bytes(0, n)) = n
  BY BytesSeq DEF Progress

(* The loops implement the pipe: no request, however it is cut and however *)
(* it ends, repeats or skips a byte, and success has the meaning the pipe  *)
(* gives it.                                                               *)
THEOREM ImplementsPipe == Spec => PipeSpec
<1>1. Init => Pipe!Init
  <2> SUFFICES ASSUME Init PROVE Pipe!Init
    OBVIOUS
  <2>1. Progress(wire) = 0
    BY BytesNone, ProgressOf, SMT DEF Init
  <2>2. Exact \in BOOLEAN
    BY DEF Exact
  <2> QED BY <2>1, <2>2 DEF Init, Pipe!Init
<1>2. IInv /\ [Next]_vars => [Pipe!Next]_(Pipe!vars)
  <2> SUFFICES ASSUME IInv, [Next]_vars PROVE Pipe!Next \/ UNCHANGED Pipe!vars
    OBVIOUS
  <2>0. TypeOK /\ Accounts
    BY DEF IInv
  <2>e. Exact \in BOOLEAN /\ Exact' \in BOOLEAN
    BY DEF Exact
  <2>n. Progress(<<>>) = 0
    BY BytesNone, ProgressOf, SMT
  <2>1. CASE Start
    <3>1. Progress(wire)' = 0
      BY <2>1, <2>n DEF Start, Progress, Bytes
    <3>2. Pipe!Begin
      BY <2>1, <2>e, <3>1 DEF Start, Pipe!Begin
    <3> QED BY <3>2 DEF Pipe!Next
  <2>2. CASE StartNothing
    <3>1. Progress(wire)' = 0
      BY <2>2, <2>n DEF StartNothing, Progress, Bytes
    <3>2. Pipe!Refuse
      BY <2>2, <2>e, <3>1 DEF StartNothing, Pipe!Refuse
    <3> QED BY <3>2 DEF Pipe!Next
  <2>3. ASSUME result = "busy", UNCHANGED <<winusb, dir, total>>,
               NEW n \in 0..Request, wire' = wire \o Bytes(buf, n),
               result' \in {"busy", "SUCCESS"} \cup Errors,
               result' = "SUCCESS" => IF Exact THEN buf + n = total ELSE buf + n > 0
        PROVE  Pipe!Advance
    <3>1. n \in Nat /\ buf + n \in Nat /\ buf + n <= total /\ wire' = Bytes(0, buf + n)
      BY <2>0, <2>3, RequestFacts
    <3>2. Progress(wire) = buf
      BY <2>0, <2>3, ProgressOf DEF Accounts, TypeOK
    <3>3. Progress(wire)' = buf + n
      <4>1. Progress(wire') = buf + n
        BY <3>1, ProgressOf
      <4> QED BY <4>1 DEF Progress, Bytes
    <3>4. buf + n \in buf..total
      BY <2>0, <3>1, SMT DEF TypeOK
    <3>5. Exact' = Exact
      BY <2>3 DEF Exact
    <3> QED BY <2>3, <3>2, <3>3, <3>4, <3>5 DEF Pipe!Advance
  <2>4. CASE LoopStep
    <3>1. PICK n \in 0..Request : Moved(n) /\ CountMoved(n)
      BY <2>4 DEF LoopStep
    <3>2. result' = "SUCCESS" => buf + n = total /\ Exact
      <4>1. n \in Nat
        BY <2>0, <2>4, RequestFacts DEF LoopStep
      <4>2. len - n = 0 /\ buf \in Nat /\ len \in Nat /\ total \in Nat => buf + n = buf + len
        BY <4>1, SMT
      <4> QED BY <2>0, <2>4, <3>1, <4>2 DEF LoopStep, CountMoved, Accounts, TypeOK, Exact
    <3>3. Pipe!Advance
      BY <2>3, <2>4, <3>1, <3>2 DEF LoopStep, Moved, CountMoved
    <3> QED BY <3>3 DEF Pipe!Next
  <2>5. CASE WinusbReceive
    <3>1. PICK n \in 1..Request : Moved(n)
      BY <2>5 DEF WinusbReceive
    <3>2. n \in 0..Request /\ buf + n > 0
      BY <2>0, <2>5, RequestFacts, SMT DEF WinusbReceive, TypeOK
    <3>3. ~Exact
      BY <2>5 DEF WinusbReceive, Exact
    <3>4. Pipe!Advance
      BY <2>3, <2>5, <3>1, <3>2, <3>3 DEF WinusbReceive, Moved
    <3> QED BY <3>4 DEF Pipe!Next
  <2>6. CASE RequestFails
    <3>1. PICK n \in 0..Request : wire' = wire \o Bytes(buf, n)
      BY <2>6 DEF RequestFails
    <3>2. result' \in Errors
      BY <2>6 DEF RequestFails, ErrorOf, Errors
    <3>3. Pipe!Advance
      BY <2>3, <2>6, <3>1, <3>2 DEF RequestFails, Errors
    <3> QED BY <3>3 DEF Pipe!Next
  <2>7. CASE DeviceFalters
    BY <2>7 DEF DeviceFalters, Pipe!vars, Progress, Bytes, Exact
  <2>8. CASE UNCHANGED vars
    BY <2>8 DEF vars, Pipe!vars, Progress, Bytes, Exact
  <2> QED BY <2>1, <2>2, <2>4, <2>5, <2>6, <2>7, <2>8 DEF Next, SystemRequest
<1> QED BY <1>1, <1>2, IInvInit, IInvNext, PTL DEF Spec, PipeSpec, Pipe!Spec
=============================================================================
