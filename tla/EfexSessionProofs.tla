------------------------- MODULE EfexSessionProofs -------------------------
(* Theorems about EfexSession: type correctness; host and device stand at  *)
(* the same place as long as no transfer fails, and again once a call has  *)
(* succeeded on its own answers; then success is the device's success, and *)
(* the stored mode the device's mode.                                      *)
EXTENDS EfexSession, SequenceTheorems, TLAPS

LegType == [via : {"usb", "fes"}, dir : {"read", "write", "none"}, len : Nat, wrap : BOOLEAN]

(* Short sequences of legs.                                                *)
LEMMA ShortSeq ==
  \A a, b, d \in LegType : /\ <<a>> \in Seq(LegType) /\ Len(<<a>>) = 1
                           /\ <<a, b>> \in Seq(LegType) /\ Len(<<a, b>>) = 2
                           /\ <<a, b, d>> \in Seq(LegType) /\ Len(<<a, b, d>>) = 3
  OBVIOUS

(* Every call has one to three legs, and truncating its argument on the    *)
(* wire changes none of them.                                              *)
LEMMA LegFacts ==
  ASSUME NEW c \in CallType
  PROVE  /\ Legs(c) \in Seq(LegType) /\ Len(Legs(c)) \in 1..3
         /\ OnWire(c) \in CallType /\ Legs(OnWire(c)) = Legs(c)
<1>1. c.len \in Nat /\ c.op \in AllOps \cup {"none"} /\ c.arg \in Args \cup {ZeroArg}
  BY DEF CallType
<1>2. Legs(c) \in Seq(LegType) /\ Len(Legs(c)) \in 1..3
  <2>1. /\ \A n \in Nat, w \in BOOLEAN : UsbWrite(n, w) \in LegType /\ UsbRead(n, w) \in LegType
        /\ SendEfexRequest \in LegType /\ ReadEfexStatus \in LegType
        /\ UsbRead(DeviceRespSize, TRUE) \in LegType
        /\ \A d \in {"read", "write", "none"}, n \in Nat : Leg("fes", d, n, FALSE) \in LegType
    BY DEF UsbWrite, UsbRead, Leg, LegType, SendEfexRequest, ReadEfexStatus,
         EfexRequestSize, StatusSize, DeviceRespSize
  <2>2. CASE c.op = "init"
    <3>1. Legs(c) = EfexInit
      BY <2>2 DEF Legs
    <3>2. EfexInit \in Seq(LegType) /\ Len(EfexInit) = 3
      BY <2>1, ShortSeq, Zenon DEF EfexInit
    <3> QED BY <3>1, <3>2
  <2>3. CASE c.op = "fel_exec"
    <3>1. Legs(c) = FelExec
      BY <2>3 DEF Legs
    <3> QED BY <2>1, <3>1, ShortSeq DEF FelExec
  <2>4. CASE c.op = "fel_read"
    <3>1. Legs(c) = FelReadData(c.len)
      BY <2>4 DEF Legs
    <3>2. UsbRead(c.len, FALSE) \in LegType
      BY <1>1, <2>1, Zenon
    <3>3. FelReadData(c.len) \in Seq(LegType) /\ Len(FelReadData(c.len)) = 3
      BY <2>1, <3>2, ShortSeq, Zenon DEF FelReadData
    <3> QED BY <3>1, <3>3
  <2>5. CASE c.op = "fel_write"
    <3>1. Legs(c) = FelWriteData(c.len)
      BY <2>5 DEF Legs
    <3>2. UsbWrite(c.len, FALSE) \in LegType
      BY <1>1, <2>1, Zenon
    <3>3. FelWriteData(c.len) \in Seq(LegType) /\ Len(FelWriteData(c.len)) = 3
      BY <2>1, <3>2, ShortSeq, Zenon DEF FelWriteData
    <3> QED BY <3>1, <3>3
  <2>6. CASE c.op \notin {"init", "fel_exec", "fel_read", "fel_write"}
    <3>1. Legs(c) = FesXfer(c)
      BY <2>6 DEF Legs
    <3>2. FesDir(c.op) \in {"read", "write", "none"}
      BY DEF FesDir
    <3>3. Leg("fes", FesDir(c.op), c.len, FALSE) \in LegType
      BY <1>1, <2>1, <3>2
    <3>4. FesXfer(c) \in Seq(LegType) /\ Len(FesXfer(c)) = 1
      BY <3>3, ShortSeq, Zenon DEF FesXfer
    <3> QED BY <3>1, <3>4
  <2> QED BY <2>2, <2>3, <2>4, <2>5, <2>6
<1>3. OnWire(c) \in CallType
  BY <1>1 DEF OnWire, CallType
<1>4. Legs(OnWire(c)) = Legs(c)
  <2>1. OnWire(c).op = c.op /\ OnWire(c).len = c.len
    BY DEF OnWire, CallType
  <2> QED BY <2>1 DEF Legs, FesXfer
<1> QED BY <1>2, <1>3, <1>4

(* A leg of a call, and the leg a header or body names, have their type.   *)
LEMMA LegTyped ==
  ASSUME NEW c \in CallType, NEW l \in 1..Len(Legs(c))
  PROVE  Legs(c)[l] \in LegType
  BY LegFacts, ElementOfSeq

(* No call at all counts as a call with one leg.                           *)
LEMMA NoCallTyped ==
  NoCall \in CallType /\ Len(Legs(NoCall)) = 1
  BY DEF NoCall, CallType, Legs, FesXfer, AllOps, FelOps, FesOps

(* What the host sends, what the device answers and the absence of a       *)
(* header are items.                                                       *)
LEMMA ItemsTyped ==
  /\ NoItem \in ItemType
  /\ \A c \in CallType : \A l \in 1..Len(Legs(c)) :
        Header(c, l) \in ItemType /\ Body(c, l) \in ItemType
  /\ \A c \in CallType : \A ok \in BOOLEAN : Response(c, ok) \in ItemType
  /\ \A c \in CallType : \A ok \in BOOLEAN : \A n \in Nat : \A m \in Modes :
        Data(n, c, ok, m) \in ItemType
<1>1. NoItem \in ItemType
  BY NoCallTyped DEF NoItem, Item, ItemType, Modes
<1>2. ASSUME NEW c \in CallType, NEW l \in 1..Len(Legs(c))
      PROVE  Header(c, l) \in ItemType /\ Body(c, l) \in ItemType
  <2>1. /\ Legs(c)[l] \in LegType /\ l \in 1..3
        /\ OnWire(c) \in CallType /\ l <= Len(Legs(OnWire(c)))
    BY LegFacts, LegTyped
  <2> QED BY <2>1 DEF Header, Body, Item, ItemType, LegType, Modes, UsbRequestSize, FesXferSize
<1>3. ASSUME NEW c \in CallType, NEW ok \in BOOLEAN, NEW n \in Nat, NEW m \in Modes
      PROVE  Response(c, ok) \in ItemType /\ Data(n, c, ok, m) \in ItemType
  <2>1. 1 <= Len(Legs(c))
    <3>1. Len(Legs(c)) \in 1..3
      BY LegFacts, Zenon
    <3> QED BY <3>1
  <2> QED BY <2>1 DEF Response, Data, Item, ItemType, ResponseSize, Modes
<1> QED BY <1>1, <1>2, <1>3 DEF Modes

(* The fields of an item.                                                  *)
LEMMA ItemFields ==
  ASSUME NEW i \in ItemType
  PROVE  /\ i.len \in Nat /\ i.call \in CallType /\ i.ok \in BOOLEAN /\ i.mode \in Modes
         /\ i.leg \in 1..Len(Legs(i.call)) /\ LegOf(i) \in LegType
  BY LegTyped, LegFacts DEF ItemType, LegOf

(* The calls the application makes are calls.                              *)
LEMMA InvokedTyped ==
  ASSUME NEW i \in Nat, NEW c \in CallsWithId(i)
  PROVE  c \in CallType
<1>1. c \in [id : {i}, op : Ops, len : Lens \cup {0}, arg : Args \cup {ZeroArg}, null : BOOLEAN]
  BY DEF CallsWithId
<1>2. Ops \subseteq AllOps /\ Lens \subseteq Nat
  BY OpsAssumption, LensAssumption
<1>3. Lens \cup {0} \subseteq Nat /\ Ops \subseteq AllOps \cup {"none"} /\ {i} \subseteq Nat
  BY <1>2
<1> QED BY <1>1, <1>3 DEF CallType

Host == /\ call \in CallType /\ leg \in 1..Len(Legs(call))
        /\ stage \in {"request", "data", "response"} /\ got \in Nat
        /\ ret \in [call : CallType, code : Codes, foreign : BOOLEAN, tainted : BOOLEAN]
        /\ tainted \in BOOLEAN /\ foreign \in BOOLEAN /\ inited \in BOOLEAN

(* Returning from a call keeps the host's part of the type invariant.      *)
LEMMA ReturnTyped ==
  ASSUME Host, NEW code \in Codes, NEW f \in BOOLEAN, NEW t \in BOOLEAN,
         Return(code, f, t)
  PROVE  Host'
<1>1. call' = NoCall /\ leg' = 1 /\ stage' = "request" /\ got' = 0
  BY DEF Return
<1>2. call' \in CallType /\ leg' \in 1..Len(Legs(call'))
  BY <1>1, NoCallTyped
<1>3. ret' \in [call : CallType, code : Codes, foreign : BOOLEAN, tainted : BOOLEAN]
  BY DEF Return, Record, Host
<1>4. tainted' \in BOOLEAN /\ foreign' \in BOOLEAN /\ inited' \in BOOLEAN
  BY DEF Return, Host
<1> QED BY <1>1, <1>2, <1>3, <1>4 DEF Host

(* An error code is one of the codes, mapped or not.                               *)
LEMMA MappedTyped ==
  ASSUME NEW code \in Codes
  PROVE  Mapped(code) \in Codes
  BY DEF Mapped, Codes

(* Storing the mode keeps it a mode.                                       *)
LEMMA StoreModeTyped ==
  ASSUME NEW i \in ItemType, mode \in Modes, StoreMode(i)
  PROVE  mode' \in Modes
  BY ItemFields DEF StoreMode

(* Adding to a sequence of one.                                            *)
LEMMA AppendOne ==
  ASSUME NEW S, NEW a \in S, NEW b \in S
  PROVE  Append(<<a>>, b) = <<a, b>>
<1>1. /\ <<a>> \in Seq(S) /\ <<a, b>> \in Seq(S) /\ Len(<<a>>) = 1 /\ Len(<<a, b>>) = 2
      /\ <<a>>[1] = a /\ <<a, b>>[1] = a /\ <<a, b>>[2] = b
  OBVIOUS
<1>2. /\ Append(<<a>>, b) \in Seq(S) /\ Len(Append(<<a>>, b)) = 2
      /\ Append(<<a>>, b)[1] = a /\ Append(<<a>>, b)[2] = b
  BY <1>1, AppendProperties
<1>3. \A i \in 1..2 : Append(<<a>>, b)[i] = <<a, b>>[i]
  <2>1. \A i \in 1..2 : i = 1 \/ i = 2
    OBVIOUS
  <2> QED BY <1>1, <1>2, <2>1, Zenon
<1> QED BY <1>1, <1>2, <1>3, SeqEqual, Zenon

(* Taking the head of a pipe, or adding to it, leaves a pipe of items.     *)
LEMMA PipeTyped ==
  ASSUME NEW q \in Seq(ItemType)
  PROVE  /\ \A i \in ItemType : Append(q, i) \in Seq(ItemType)
         /\ q # <<>> => Head(q) \in ItemType /\ Tail(q) \in Seq(ItemType)
  OBVIOUS

Counts == mode \in Modes /\ ncalls \in 0..MaxCalls /\ faults \in 0..MaxFaults
Pipes == outq \in Seq(ItemType) /\ inq \in Seq(ItemType) /\ pending \in Seq(ItemType)
Device == /\ attached \in BOOLEAN /\ devMode \in DeviceModes
          /\ devCall \in CallType /\ devLeg \in 1..3 /\ devOpen \in ItemType
          /\ completed \subseteq [call : CallType, ok : BOOLEAN]

(* The type invariant by its parts, before and after a step.               *)
LEMMA TypeParts ==
  /\ TypeOK <=> Host /\ Counts /\ Pipes /\ Device
  /\ TypeOK' <=> Host' /\ Counts' /\ Pipes' /\ Device'
  BY DEF TypeOK, Host, Counts, Pipes, Device

(* The leg in progress has its type.                                       *)
LEMMA CurLegTyped ==
  ASSUME Host
  PROVE  /\ CurLeg \in LegType
         /\ Header(call, leg) \in ItemType /\ Body(call, leg) \in ItemType
<1>1. call \in CallType /\ leg \in 1..Len(Legs(call))
  BY DEF Host
<1> QED BY <1>1, LegTyped, ItemsTyped DEF CurLeg

(* A new call, and the steps that send, keep the types.                    *)
LEMMA SendTyped ==
  ASSUME TypeOK,
         (\E c \in CallsWithId(ncalls + 1) : Invoke(c)) \/ SendRequest \/ SendData
  PROVE  TypeOK'
<1> USE TypeParts
<1>1. ASSUME NEW c \in CallsWithId(ncalls + 1), Invoke(c)
      PROVE  TypeOK'
  <2>1. c \in CallType /\ ncalls + 1 \in Nat
    BY InvokedTyped, BoundsAssumption DEF Counts
  <2>2. leg = 1 /\ leg \in 1..Len(Legs(c))
    <3>1. leg = 1
      BY <1>1, NoCallTyped DEF Invoke, Host
    <3>2. Len(Legs(c)) \in 1..3
      BY <2>1, LegFacts, Zenon
    <3> QED BY <3>1, <3>2
  <2>3. Host'
    <3>1. Refusal(c, mode) \in Codes
      BY DEF Refusal, Codes
    <3>2. CASE Refusal(c, mode) = "SUCCESS"
      BY <1>1, <2>1, <2>2, <3>2 DEF Invoke, Host
    <3>3. CASE Refusal(c, mode) # "SUCCESS"
      <4>1. /\ ret' = [call |-> c, code |-> Refusal(c, mode), foreign |-> FALSE,
                       tainted |-> tainted]
            /\ UNCHANGED <<call, leg, stage, got, tainted, foreign, inited>>
        BY <1>1, <3>3 DEF Invoke, Record
      <4> QED BY <2>1, <3>1, <4>1 DEF Host
    <3> QED BY <3>2, <3>3
  <2>4. Counts'
    BY <1>1, BoundsAssumption DEF Invoke, Counts
  <2>5. Pipes' /\ Device'
    BY <1>1 DEF Invoke, device, Pipes, Device
  <2> QED BY <2>3, <2>4, <2>5
<1>2. ASSUME SendRequest PROVE TypeOK'
  <2>1. Host'
    BY <1>2 DEF SendRequest, Host, ghosts
  <2>2. Pipes'
    BY <1>2, CurLegTyped, PipeTyped DEF SendRequest, Pipes, device
  <2>3. Counts' /\ Device'
    BY <1>2 DEF SendRequest, ghosts, device, Counts, Device
  <2> QED BY <2>1, <2>2, <2>3
<1>3. ASSUME SendData PROVE TypeOK'
  <2>1. Host'
    BY <1>3 DEF SendData, Host, ghosts
  <2>2. Pipes'
    BY <1>3, CurLegTyped, PipeTyped DEF SendData, Pipes, device
  <2>3. Counts' /\ Device'
    BY <1>3 DEF SendData, ghosts, device, Counts, Device
  <2> QED BY <2>1, <2>2, <2>3
<1> QED BY <1>1, <1>2, <1>3

(* The steps that receive keep the types.                                  *)
LEMMA ReceiveTyped ==
  ASSUME TypeOK, RecvPart \/ RecvData \/ RecvOverflow
                 \/ BadMagic \/ Refused \/ LegDone \/ CallDone
  PROVE  TypeOK'
<1> USE TypeParts
<1>1. /\ Head(inq) \in ItemType /\ Tail(inq) \in Seq(ItemType)
      /\ Take \in BOOLEAN /\ Doubt \in BOOLEAN
  <2>1. inq # <<>>
    BY DEF RecvPart, RecvData, RecvOverflow, BadMagic, Refused, LegDone, CallDone, RecvResponse
  <2> QED BY <2>1, PipeTyped DEF Pipes, Take, Doubt, Host
<1>2. ASSUME RecvPart PROVE TypeOK'
  <2>1. Host'
    BY <1>1, <1>2, ItemFields DEF RecvPart, Host
  <2>2. Counts'
    BY <1>1, <1>2, StoreModeTyped DEF RecvPart, Counts
  <2>3. Pipes' /\ Device'
    BY <1>1, <1>2 DEF RecvPart, device, Pipes, Device
  <2> QED BY <2>1, <2>2, <2>3
<1>3. ASSUME RecvData PROVE TypeOK'
  <2>1. Host'
    BY <1>1, <1>3 DEF RecvData, Host
  <2>2. Counts'
    BY <1>1, <1>3, StoreModeTyped DEF RecvData, Counts
  <2>3. Pipes' /\ Device'
    BY <1>1, <1>3 DEF RecvData, device, Pipes, Device
  <2> QED BY <2>1, <2>2, <2>3
<1>4. ASSUME RecvOverflow PROVE TypeOK'
  <2>1. Host'
    <3>1. Return("USB_TRANSFER", Take, TRUE) /\ "USB_TRANSFER" \in Codes
      BY <1>4 DEF RecvOverflow, Codes
    <3> QED BY <1>1, <3>1, ReturnTyped
  <2>2. Counts'
    BY <1>1, <1>4, StoreModeTyped DEF RecvOverflow, Counts
  <2>3. Pipes' /\ Device'
    BY <1>1, <1>4 DEF RecvOverflow, device, Pipes, Device
  <2> QED BY <2>1, <2>2, <2>3
<1>5. ASSUME NEW valid \in BOOLEAN, NEW ok \in BOOLEAN, RecvResponse(valid, ok)
      PROVE  Counts' /\ Pipes' /\ Device'
  BY <1>1, <1>5 DEF RecvResponse, device, Counts, Pipes, Device
<1>6. ASSUME BadMagic PROVE TypeOK'
  <2>1. Return(Mapped("INVALID_RESPONSE"), Take, TRUE) /\ Mapped("INVALID_RESPONSE") \in Codes
    BY <1>6, MappedTyped DEF BadMagic, Codes
  <2>2. Host'
    BY <1>1, <2>1, ReturnTyped
  <2> QED BY <1>5, <1>6, <2>2 DEF BadMagic
<1>7. ASSUME Refused PROVE TypeOK'
  <2>1. Return(Mapped("PROTOCOL"), Take, Doubt) /\ Mapped("PROTOCOL") \in Codes
    BY <1>7, MappedTyped DEF Refused, Codes
  <2>2. Host'
    BY <1>1, <2>1, ReturnTyped DEF Host
  <2> QED BY <1>5, <1>7, <2>2 DEF Refused
<1>8. ASSUME LegDone PROVE TypeOK'
  <2>1. leg + 1 \in 1..Len(Legs(call))
    BY <1>8, LegFacts DEF LegDone, LastLeg, Host
  <2>2. Host'
    BY <1>1, <1>8, <2>1 DEF LegDone, Host
  <2> QED BY <1>5, <1>8, <2>2 DEF LegDone
<1>9. ASSUME CallDone PROVE TypeOK'
  <2>1. Return("SUCCESS", Take, Doubt) /\ "SUCCESS" \in Codes
    BY <1>9 DEF CallDone, Codes
  <2>2. Host'
    BY <1>1, <2>1, ReturnTyped DEF Host
  <2> QED BY <1>5, <1>9, <2>2 DEF CallDone
<1> QED BY <1>2, <1>3, <1>4, <1>6, <1>7, <1>8, <1>9

(* The steps in which a transfer fails or cannot be made, a reset and a    *)
(* new open keep the types.                                                *)
LEMMA FaultTyped ==
  ASSUME TypeOK, NullBuffer \/ SendFails \/ RecvFails \/ Reopen \/ DevReset
  PROVE  TypeOK'
<1> USE TypeParts
<1>1. ASSUME NullBuffer PROVE TypeOK'
  <2>1. Return("NULL_PTR", foreign, TRUE) /\ "NULL_PTR" \in Codes /\ foreign \in BOOLEAN
    BY <1>1 DEF NullBuffer, Codes, Host
  <2>2. Host'
    BY <2>1, ReturnTyped
  <2>3. Counts' /\ Pipes' /\ Device'
    BY <1>1 DEF NullBuffer, device, Counts, Pipes, Device
  <2> QED BY <2>2, <2>3
<1>2. ASSUME NEW code \in {"USB_TRANSFER", "USB_TIMEOUT"}, Return(Mapped(code), foreign, TRUE)
      PROVE  Host'
  <2>1. Mapped(code) \in Codes /\ foreign \in BOOLEAN
    BY MappedTyped DEF Codes, Host
  <2> QED BY <1>2, <2>1, ReturnTyped
<1>3. CountFault => faults' \in 0..MaxFaults
  BY BoundsAssumption DEF CountFault, Counts
<1>4. ASSUME SendFails PROVE TypeOK'
  <2>1. Host'
    BY <1>2, <1>4 DEF SendFails
  <2>2. Pipes'
    BY <1>4, CurLegTyped, PipeTyped DEF SendFails, device, Pipes
  <2>3. Counts' /\ Device'
    BY <1>3, <1>4 DEF SendFails, device, Counts, Device
  <2> QED BY <2>1, <2>2, <2>3
<1>5. ASSUME RecvFails PROVE TypeOK'
  <2>1. Host'
    BY <1>2, <1>5 DEF RecvFails
  <2>2. Pipes'
    BY <1>5, PipeTyped DEF RecvFails, device, Pipes
  <2>3. Counts' /\ Device'
    BY <1>3, <1>5 DEF RecvFails, device, Counts, Device
  <2> QED BY <2>1, <2>2, <2>3
<1>6. ASSUME Reopen PROVE TypeOK'
  BY <1>6 DEF Reopen, host, Host, Counts, Pipes, Device
<1>7. ASSUME DevReset PROVE TypeOK'
  <2>1. Host'
    BY <1>7 DEF DevReset, host, Host
  <2>2. Counts'
    BY <1>7, BoundsAssumption DEF DevReset, Counts
  <2>3. Pipes'
    BY <1>7 DEF DevReset, Pipes
  <2>4. Device'
    <3>1. /\ devMode' \in DeviceModes /\ attached' \in BOOLEAN
          /\ completed' \subseteq [call : CallType, ok : BOOLEAN]
      BY <1>7, Zenon DEF DevReset, Device
    <3>2. devCall' \in CallType /\ devOpen' \in ItemType
      BY <1>7, NoCallTyped, ItemsTyped, Zenon DEF DevReset
    <3>3. devLeg' \in 1..3
      BY <1>7 DEF DevReset
    <3> QED BY <3>1, <3>2, <3>3, Zenon DEF Device
  <2> QED BY <2>1, <2>2, <2>3, <2>4
<1> QED BY <1>1, <1>4, <1>5, <1>6, <1>7

(* What a device step leaves alone.                                        *)
LEMMA DevOnlyTyped ==
  ASSUME TypeOK, DevOnly
  PROVE  /\ Host' /\ Counts' /\ inq' \in Seq(ItemType)
         /\ attached' \in BOOLEAN /\ devMode' \in DeviceModes
  BY TypeParts DEF DevOnly, host, ghosts, Host, Counts, Pipes, Device

(* The device's steps keep the types.                                      *)
LEMMA DeviceTyped ==
  ASSUME TypeOK, DevStep
  PROVE  TypeOK'
<1> USE TypeParts
<1>1. ASSUME NEW k, Taking(k)
      PROVE  /\ Head(outq) \in ItemType /\ outq' \in Seq(ItemType)
             /\ Head(outq).call \in CallType /\ LegOf(Head(outq)) \in LegType
  BY <1>1, PipeTyped, ItemFields DEF Taking, Pipes
<1>2. \A c \in CallType, ok \in BOOLEAN :
         /\ Response(c, ok) \in ItemType /\ <<Response(c, ok)>> \in Seq(ItemType)
         /\ {[call |-> c, ok |-> ok]} \subseteq [call : CallType, ok : BOOLEAN]
  BY ItemsTyped
<1>3. ASSUME DevOpenWrite PROVE TypeOK'
  <2>1. Pipes'
    BY <1>1, <1>3, DevOnlyTyped DEF DevOpenWrite, Pipes
  <2>2. Device'
    BY <1>1, <1>3, DevOnlyTyped DEF DevOpenWrite, Device
  <2> QED BY <1>3, <2>1, <2>2, DevOnlyTyped DEF DevOpenWrite
<1>4. ASSUME DevDrop PROVE TypeOK'
  <2>1. Pipes'
    BY <1>1, <1>4, DevOnlyTyped DEF DevDrop, Pipes
  <2>2. Device'
    BY <1>4, DevOnlyTyped, ItemsTyped DEF DevDrop, Device
  <2> QED BY <1>4, <2>1, <2>2, DevOnlyTyped DEF DevDrop
<1>5. ASSUME DevSend PROVE TypeOK'
  <2>1. Pipes'
    BY <1>5, PipeTyped DEF DevSend, Pipes
  <2>2. Host' /\ Counts' /\ Device'
    BY <1>5 DEF DevSend, host, ghosts, Host, Counts, Device
  <2> QED BY <2>1, <2>2
<1>6. ASSUME NEW ok \in BOOLEAN, DevFesCommand(ok) PROVE TypeOK'
  <2> DEFINE h == Head(outq)
  <2>1. h.call \in CallType /\ LegOf(h).len \in Nat /\ outq' \in Seq(ItemType)
    BY <1>1, <1>6 DEF DevFesCommand, LegType
  <2>2. pending' \in Seq(ItemType)
    <3>1. Data(LegOf(h).len, h.call, ok, "NULL") \in ItemType /\ Response(h.call, ok) \in ItemType
      BY <2>1, ItemsTyped DEF Modes
    <3> QED BY <1>6, <3>1 DEF DevFesCommand
  <2>3. completed' \subseteq [call : CallType, ok : BOOLEAN]
    BY <1>2, <1>6, <2>1 DEF DevFesCommand, Completes, Device
  <2> QED BY <1>6, <2>1, <2>2, <2>3, DevOnlyTyped, NoCallTyped, ItemsTyped
          DEF DevFesCommand, Pipes, Device
<1>7. ASSUME NEW ok \in BOOLEAN, DevTakeBody(ok) PROVE TypeOK'
  <2>1. /\ Head(outq).call \in CallType /\ outq' \in Seq(ItemType)
        /\ devOpen.call \in CallType
    BY <1>1, <1>7, ItemFields DEF DevTakeBody, Device
  <2>2. pending' \in Seq(ItemType)
    BY <1>2, <1>7, <2>1 DEF DevTakeBody
  <2>3. completed' \subseteq [call : CallType, ok : BOOLEAN]
    BY <1>2, <1>7, <2>1 DEF DevTakeBody, Completes, Device
  <2>4. devCall' \in CallType /\ devLeg' \in 1..3
    BY <1>7, <2>1, NoCallTyped DEF DevTakeBody, Device
  <2> QED BY <1>7, <2>1, <2>2, <2>3, <2>4, DevOnlyTyped, ItemsTyped
          DEF DevTakeBody, Pipes, Device
<1>8. ASSUME NEW ok \in BOOLEAN, NEW st \in BOOLEAN, DevAnswerRead(ok, st) PROVE TypeOK'
  <2> DEFINE h == Head(outq)
             expected == /\ devCall # NoCall
                         /\ devLeg \in DOMAIN Legs(devCall)
                         /\ Legs(devCall)[devLeg] = LegOf(h)
             last == expected /\ devLeg = Len(Legs(devCall))
             m == IF expected /\ devCall.op = "init" /\ devLeg = 2 THEN devMode ELSE "NULL"
  <2>1. /\ h.call \in CallType /\ LegOf(h).len \in Nat /\ outq' \in Seq(ItemType)
        /\ devCall \in CallType /\ m \in Modes
    BY <1>1, <1>8 DEF DevAnswerRead, LegType, Device, DeviceModes, Modes
  <2>2. /\ pending' = <<Data(LegOf(h).len, devCall, st, m), Response(h.call, ok)>>
        /\ devCall' = IF expected /\ (~ok \/ last) THEN NoCall ELSE devCall
        /\ devLeg' = IF ~expected THEN devLeg ELSE IF ~ok \/ last THEN 1 ELSE devLeg + 1
        /\ IF last /\ ok THEN Completes(devCall, st) ELSE UNCHANGED completed
        /\ devOpen' = NoItem /\ DevOnly
    BY <1>8 DEF DevAnswerRead
  <2>3. pending' \in Seq(ItemType)
    <3>1. Data(LegOf(h).len, devCall, st, m) \in ItemType /\ Response(h.call, ok) \in ItemType
      BY <2>1, ItemsTyped
    <3> QED BY <2>2, <3>1
  <2>4. completed' \subseteq [call : CallType, ok : BOOLEAN]
    BY <1>2, <2>1, <2>2 DEF Completes, Device
  <2>5. devCall' \in CallType
    BY <2>1, <2>2, NoCallTyped
  <2>6. devLeg' \in 1..3
    <3>1. /\ DOMAIN Legs(devCall) = 1..Len(Legs(devCall)) /\ Len(Legs(devCall)) \in 1..3
          /\ devLeg \in 1..3
      BY <2>1, LegFacts, LenProperties DEF Device
    <3>2. expected /\ ~last => devLeg \in 1..Len(Legs(devCall)) /\ devLeg # Len(Legs(devCall))
      BY <3>1
    <3>3. expected /\ ~last => devLeg + 1 \in 1..3
      <4>1. \A n \in 1..3 : \A l \in 1..n : l # n => l + 1 \in 1..3
        OBVIOUS
      <4> HIDE DEF expected, last
      <4> QED BY <3>1, <3>2, <4>1, Zenon
    <3> HIDE DEF expected, last
    <3> QED BY <2>2, <3>1, <3>3
  <2> QED BY <2>1, <2>2, <2>3, <2>4, <2>5, <2>6, DevOnlyTyped, ItemsTyped DEF Pipes, Device
<1> QED BY <1>3, <1>4, <1>5, <1>6, <1>7, <1>8 DEF DevStep

(* Every step keeps the types.                                             *)
LEMMA StepTyped ==
  TypeOK /\ [Next]_vars => TypeOK'
<1> SUFFICES ASSUME TypeOK, [Next]_vars PROVE TypeOK'
  OBVIOUS
<1>1. ASSUME UNCHANGED vars PROVE TypeOK'
  BY <1>1, TypeParts DEF vars, host, ghosts, device, Host, Counts, Pipes, Device
<1> QED BY <1>1, SendTyped, ReceiveTyped, FaultTyped, DeviceTyped DEF Next, HostStep, Finished

(* The initial state has the types.                                        *)
LEMMA InitTyped ==
  Init => TypeOK
<1> SUFFICES ASSUME Init PROVE TypeOK
  OBVIOUS
<1>1. Host
  <2>1. ret \in [call : CallType, code : Codes, foreign : BOOLEAN, tainted : BOOLEAN]
    BY NoCallTyped DEF Init, Record, Codes
  <2>2. call = NoCall /\ leg = 1 /\ stage = "request" /\ got = 0
    BY DEF Init
  <2>3. call \in CallType /\ leg \in 1..Len(Legs(call))
    BY <2>2, NoCallTyped
  <2>4. tainted \in BOOLEAN /\ foreign \in BOOLEAN /\ inited \in BOOLEAN
    BY DEF Init
  <2> QED BY <2>1, <2>2, <2>3, <2>4 DEF Host
<1>2. Counts /\ Pipes
  BY BoundsAssumption DEF Init, Counts, Pipes, Modes
<1>3. Device
  BY NoCallTyped, ItemsTyped DEF Init, Device
<1> QED BY <1>1, <1>2, <1>3, TypeParts

(* The session's variables always hold values of their types: whatever is  *)
(* refused, lost, late or reset, the host's place in a call stays one of   *)
(* that call's legs, and nothing but items gets into the pipes.            *)
THEOREM TypeCorrect == Spec => []TypeOK
  BY InitTyped, StepTyped, PTL DEF Spec

----------------------------------------------------------------------------
(***************************************************************************)
(* InStep is not inductive alone.  The strengthening adds that a call in   *)
(* progress is a library call and that without one the host is at the      *)
(* start of a leg; that a device which left the bus has nothing in its     *)
(* pipes; that firmware in FEL mode does not answer a FES call; that       *)
(* nothing around belongs to a later call than the one in progress; and    *)
(* how a call that follows a failed transfer stands in the queue.          *)
(***************************************************************************)
Idle == IF call = NoCall THEN leg = 1 /\ stage = "request" /\ got = 0 ELSE call.op \in AllOps
Silent == ~attached => /\ outq = <<>> /\ inq = <<>> /\ pending = <<>>
                       /\ devOpen = NoItem /\ devCall = NoCall
Deaf == ~tainted /\ call.op \in FesOps /\ devMode # "SRV" =>
          /\ inq = <<>> /\ pending = <<>> /\ devOpen = NoItem
          /\ \A i \in 1..Len(outq) : outq[i].call.op \in FesOps
Ids == /\ call # NoCall => call.id = ncalls /\ call.id # 0
       /\ \A n \in 1..Len(outq) : outq[n].call.id <= ncalls
       /\ \A n \in 1..Len(Answers) : Answers[n].call.id <= ncalls
       /\ devOpen.call.id <= ncalls /\ devCall.id <= ncalls

(* Behind what earlier calls left: all but the last k items of a pipe are  *)
(* theirs, and the device has not come to this call.                       *)
Ahead(q, k) == Len(q) >= k /\ \A n \in 1..Len(q)-k : q[n].call.id # call.id
Uncome == Ahead(Answers, 0) /\ devOpen.call.id # call.id /\ devCall.id # call.id

(* The stages of the first leg of a call in the queue, by how far the      *)
(* device has come: nothing sent, header sent, data sent, header taken,    *)
(* answered, or a FES header that firmware in FEL mode drops.              *)
QRequest == stage = "request" /\ Ahead(outq, 0) /\ Uncome
QHeader == /\ stage = IF CurLeg.dir = "none" THEN "response" ELSE "data"
           /\ Ahead(outq, 1) /\ outq[Len(outq)] = Hdr /\ Uncome
QBody == /\ stage = "response" /\ CurLeg.dir = "write" /\ Uncome
         /\ Ahead(outq, 2) /\ outq[Len(outq)-1] = Hdr /\ outq[Len(outq)] = Body(call, leg)
QOpen == /\ CurLeg.dir = "write" /\ devOpen = Hdr /\ Ahead(Answers, 0) /\ devCall.id # call.id
         /\ \/ stage = "data" /\ outq = <<>>
            \/ stage = "response" /\ outq = <<Body(call, leg)>>
         /\ call.op \in FesOps => devMode = "SRV"
QAnswered == /\ outq = <<>> /\ devOpen = NoItem
             /\ \/ /\ stage = "data" /\ CurLeg.dir = "read" /\ Ahead(Answers, 2)
                   /\ IsData(Answers[Len(Answers)-1])
                \/ stage = "response" /\ CurLeg.dir # "read" /\ Ahead(Answers, 1)
             /\ IsResponse(Answers[Len(Answers)]) /\ DeviceAfter(Answers[Len(Answers)].ok)
             /\ call.op \in FesOps => devMode = "SRV"
QUnheard == /\ call.op \in FesOps /\ devMode # "SRV" /\ devOpen = NoItem /\ Uncome
            /\ \/ stage # "request" /\ outq = <<>>
               \/ stage = "response" /\ outq = <<Body(call, leg)>>

(* A transfer has failed and the call has read no answer yet.              *)
Unsure == tainted /\ attached /\ call # NoCall /\ ~foreign
Queued == Unsure => /\ leg = 1 /\ got = 0
                    /\ QRequest \/ QHeader \/ QBody \/ QOpen \/ QAnswered \/ QUnheard

IInv == TypeOK /\ InStep /\ Idle /\ Silent /\ Deaf /\ Ids /\ Queued

(* The shape of the legs: FES calls have a single one; init and the FEL    *)
(* calls start with a write, read only later, and write again only in the  *)
(* middle of three.                                                        *)
LEMMA LegShape ==
  ASSUME NEW c \in CallType, c.op \in AllOps, NEW l \in 1..Len(Legs(c))
  PROVE  /\ Legs(c)[l].via = "fes" <=> c.op \in FesOps
         /\ c.op \in FesOps => Len(Legs(c)) = 1
         /\ c.op \notin FesOps =>
              /\ OnWire(c) = c /\ Len(Legs(c)) >= 2 /\ Legs(c)[l].via = "usb"
              /\ Legs(c)[l].dir \in {"read", "write"}
              /\ Legs(c)[l].dir = "read" => l # 1
              /\ Legs(c)[l].dir = "write" /\ l # 1 => l = 2 /\ Len(Legs(c)) = 3
<1>1. OnWire(c) = c \/ c.op \in FesOps
  BY DEF OnWire
<1>2. CASE c.op \in FesOps
  <2>1. Legs(c) = FesXfer(c)
    BY <1>2 DEF Legs, FesOps
  <2> QED BY <1>2, <2>1 DEF FesXfer, Leg
<1>3. CASE c.op = "init"
  <2>1. Legs(c) = EfexInit
    BY <1>3 DEF Legs
  <2> QED BY <1>1, <1>3, <2>1 DEF EfexInit, SendEfexRequest, ReadEfexStatus, UsbRead, UsbWrite,
            Leg, FesOps
<1>4. CASE c.op = "fel_exec"
  <2>1. Legs(c) = FelExec
    BY <1>4 DEF Legs
  <2> QED BY <1>1, <1>4, <2>1 DEF FelExec, SendEfexRequest, ReadEfexStatus, UsbRead, UsbWrite,
            Leg, FesOps
<1>5. CASE c.op = "fel_read"
  <2>1. Legs(c) = FelReadData(c.len)
    BY <1>5 DEF Legs
  <2> QED BY <1>1, <1>5, <2>1 DEF FelReadData, SendEfexRequest, ReadEfexStatus, UsbRead, UsbWrite,
            Leg, FesOps
<1>6. CASE c.op = "fel_write"
  <2>1. Legs(c) = FelWriteData(c.len)
    BY <1>6 DEF Legs
  <2> QED BY <1>1, <1>6, <2>1 DEF FelWriteData, SendEfexRequest, ReadEfexStatus, UsbRead, UsbWrite,
            Leg, FesOps
<1> QED BY <1>2, <1>3, <1>4, <1>5, <1>6 DEF AllOps, FelOps

(* What the device reads off the header and the body of the current leg.   *)
LEMMA SentFacts ==
  ASSUME Host
  PROVE  /\ Hdr.kind = "header" /\ Hdr.call = OnWire(call) /\ Hdr.leg = leg
         /\ LegOf(Hdr) = CurLeg /\ Hdr # NoItem
         /\ Body(call, leg).kind = "body" /\ Body(call, leg).call = OnWire(call)
         /\ Body(call, leg).leg = leg /\ Body(call, leg).len = CurLeg.len
         /\ OnWire(call).op = call.op
<1>1. call \in CallType /\ Legs(OnWire(call)) = Legs(call)
  BY LegFacts DEF Host
<1>2. OnWire(call).op = call.op
  BY <1>1 DEF OnWire, CallType
<1> QED BY <1>1, <1>2 DEF Hdr, Header, Body, Item, NoItem, LegOf, CurLeg

(* The answers on their way: taking one from the pipe takes the first of   *)
(* them, sending one changes none.                                         *)
LEMMA AnswersFacts ==
  ASSUME Pipes
  PROVE  /\ Answers \in Seq(ItemType)
         /\ Answers = <<>> <=> inq = <<>> /\ pending = <<>>
         /\ inq # <<>> => /\ Head(inq) = Answers[1] /\ Len(Answers) >= 1
                          /\ Tail(inq) \o pending \in Seq(ItemType)
                          /\ Len(Tail(inq) \o pending) = Len(Answers) - 1
                          /\ \A i \in 1..Len(Answers)-1 :
                               (Tail(inq) \o pending)[i] = Answers[i + 1]
         /\ pending # <<>> => Append(inq, Head(pending)) \o Tail(pending) = Answers
<1>1. /\ Answers \in Seq(ItemType) /\ Len(Answers) = Len(inq) + Len(pending)
      /\ \A i \in 1..Len(inq) + Len(pending) :
           Answers[i] = IF i <= Len(inq) THEN inq[i] ELSE pending[i - Len(inq)]
  BY ConcatProperties DEF Pipes, Answers
<1>2. Answers = <<>> <=> inq = <<>> /\ pending = <<>>
  BY ConcatEqualIffEmpty DEF Pipes, Answers
<1>3. ASSUME inq # <<>>
      PROVE  /\ Head(inq) = Answers[1] /\ Len(Answers) >= 1
             /\ Tail(inq) \o pending \in Seq(ItemType)
             /\ Len(Tail(inq) \o pending) = Len(Answers) - 1
             /\ \A i \in 1..Len(Answers)-1 : (Tail(inq) \o pending)[i] = Answers[i + 1]
  <2>1. /\ Tail(inq) \in Seq(ItemType) /\ Len(Tail(inq)) = Len(inq) - 1 /\ Len(inq) >= 1
        /\ \A i \in 1..Len(inq)-1 : Tail(inq)[i] = inq[i + 1]
        /\ Head(inq) = inq[1] /\ Len(pending) \in Nat /\ Len(inq) \in Nat
    BY <1>3 DEF Pipes
  <2>2. /\ Tail(inq) \o pending \in Seq(ItemType)
        /\ Len(Tail(inq) \o pending) = Len(Tail(inq)) + Len(pending)
        /\ \A i \in 1..Len(Tail(inq)) + Len(pending) :
             (Tail(inq) \o pending)[i] =
                IF i <= Len(Tail(inq)) THEN Tail(inq)[i] ELSE pending[i - Len(Tail(inq))]
    BY <2>1, ConcatProperties DEF Pipes
  <2>3. ASSUME NEW i \in 1..Len(Answers)-1
        PROVE  (Tail(inq) \o pending)[i] = Answers[i + 1]
    <3>1. CASE i <= Len(inq) - 1
      BY <1>1, <2>1, <2>2, <2>3, <3>1
    <3>2. CASE i > Len(inq) - 1
      <4>1. i - (Len(inq) - 1) = (i + 1) - Len(inq)
        BY <2>1, <2>3, <1>1
      <4> QED BY <1>1, <2>1, <2>2, <2>3, <3>2, <4>1
    <3> QED BY <1>1, <2>1, <3>1, <3>2
  <2> QED BY <1>1, <2>1, <2>2, <2>3
<1>4. ASSUME pending # <<>>
      PROVE  Append(inq, Head(pending)) \o Tail(pending) = Answers
  <2>1. /\ Head(pending) \in ItemType /\ Tail(pending) \in Seq(ItemType)
        /\ <<Head(pending)>> \in Seq(ItemType)
        /\ <<Head(pending)>> \o Tail(pending) = pending
    BY <1>4 DEF Pipes
  <2>2. Append(inq, Head(pending)) = inq \o <<Head(pending)>>
    BY <2>1, AppendIsConcat DEF Pipes
  <2>3. (inq \o <<Head(pending)>>) \o Tail(pending) = inq \o (<<Head(pending)>> \o Tail(pending))
    BY <2>1, ConcatAssociative DEF Pipes
  <2> QED BY <2>1, <2>2, <2>3 DEF Answers
<1> QED BY <1>1, <1>2, <1>3, <1>4

(* A call in progress that no failed transfer precedes is in step whenever *)
(* something is in the host's pipe.                                        *)
LEMMA InStepWithAnswer ==
  ASSUME IInv, ~tainted, inq # <<>>
  PROVE  Synced
  BY DEF IInv, Deaf, Synced

(* The id of a call is what reaches the wire.                              *)
LEMMA WireId ==
  ASSUME NEW c \in CallType
  PROVE  OnWire(c).id = c.id
  BY DEF OnWire, CallType

(* If the first of the answers is this call's, none is ahead of it.        *)
LEMMA FirstOfLast ==
  ASSUME NEW q \in Seq(ItemType), NEW k \in 1..2, Ahead(q, k), q[1].call.id = call.id
  PROVE  Len(q) = k
<1>1. Len(q) \in Nat
  BY LenProperties
<1>2. CASE Len(q) > k
  <2>1. 1 \in 1..Len(q)-k
    BY <1>1, <1>2
  <2> QED BY <2>1 DEF Ahead
<1> QED BY <1>1, <1>2 DEF Ahead

(* An answer of the call's own at the head of the pipe, before any other,  *)
(* is all there is of answers, whatever went wrong before.                 *)
LEMMA OwnHead ==
  ASSUME IInv, tainted, ~Take, Receiving, inq # <<>>
  PROVE  /\ call # NoCall /\ leg = 1 /\ got = 0 /\ outq = <<>> /\ devOpen = NoItem
         /\ call.op \in FesOps => devMode = "SRV"
         /\ Head(inq) = Answers[1]
         /\ \/ stage = "data" /\ CurLeg.dir = "read" /\ Answered(2) /\ IsData(Answers[1])
            \/ stage = "response" /\ Answered(1)
<1>1. /\ Head(inq) = Answers[1] /\ Answers \in Seq(ItemType) /\ Len(Answers) >= 1
      /\ Len(Answers) \in Nat
  BY AnswersFacts, LenProperties, TypeParts DEF IInv
<1>2. Unsure /\ Answers[1].call.id = call.id
  BY <1>1 DEF IInv, Silent, Receiving, Take, Unsure
<1>3. leg = 1 /\ got = 0 /\ stage # "request"
  BY <1>2 DEF IInv, Queued, Receiving
<1>4. ~Ahead(Answers, 0)
  <2>1. 1 \in 1..Len(Answers)-0
    BY <1>1
  <2> QED BY <1>2, <2>1 DEF Ahead
<1>5. QAnswered
  BY <1>2, <1>3, <1>4 DEF IInv, Queued, QRequest, QHeader, QBody, QOpen, QUnheard, Uncome
<1>6. CASE stage = "data"
  <2>1. Ahead(Answers, 2) /\ IsData(Answers[Len(Answers)-1]) /\ CurLeg.dir = "read"
    BY <1>5, <1>6 DEF QAnswered
  <2>2. Len(Answers) = 2
    BY <1>1, <1>2, <2>1, FirstOfLast
  <2>3. Answered(2) /\ IsData(Answers[1])
    BY <1>5, <2>1, <2>2 DEF QAnswered, Answered
  <2> QED BY <1>1, <1>2, <1>3, <1>5, <1>6, <2>1, <2>3 DEF QAnswered, Unsure
<1>7. CASE stage = "response"
  <2>1. Ahead(Answers, 1)
    BY <1>5, <1>7 DEF QAnswered
  <2>2. Len(Answers) = 1
    BY <1>1, <1>2, <2>1, FirstOfLast
  <2>3. Answered(1)
    BY <1>5, <2>2 DEF QAnswered, Answered
  <2> QED BY <1>1, <1>2, <1>3, <1>5, <1>7, <2>3 DEF QAnswered, Unsure
<1> QED BY <1>3, <1>6, <1>7 DEF Receiving

(* A host that finds something in its pipe, all transfers having           *)
(* succeeded, or something of its own first, finds exactly the answer it   *)
(* waits for.                                                              *)
LEMMA Awaited ==
  ASSUME IInv, ~Doubt, Receiving, inq # <<>>
  PROVE  /\ call # NoCall /\ got = 0 /\ outq = <<>> /\ devOpen = NoItem
         /\ call.op \in FesOps => devMode = "SRV"
         /\ Head(inq) = Answers[1] /\ Head(inq).len = Need
         /\ \/ stage = "data" /\ CurLeg.dir = "read" /\ Answered(2) /\ IsData(Answers[1])
            \/ stage = "response" /\ Answered(1)
<1>1. Head(inq) = Answers[1] /\ Answers # <<>>
  BY AnswersFacts, TypeParts DEF IInv
<1>2. CurLeg.dir \in {"read", "write", "none"} /\ CurLeg.len \in Nat
  BY CurLegTyped, TypeParts DEF IInv, LegType
<1>3. ASSUME ~tainted
      PROVE  /\ call # NoCall /\ got = 0 /\ outq = <<>> /\ devOpen = NoItem
             /\ call.op \in FesOps => devMode = "SRV"
             /\ \/ stage = "data" /\ CurLeg.dir = "read" /\ Answered(2) /\ IsData(Answers[1])
                \/ stage = "response" /\ Answered(1)
  <2>1. Synced
    BY <1>3, InStepWithAnswer
  <2>2. call # NoCall /\ got = 0 /\ (call.op \in FesOps => devMode = "SRV")
    BY <2>1 DEF IInv, InStep, Receiving, Synced
  <2>3. CASE stage = "data"
    <3>1. CurLeg.dir = "read"
      BY <2>3 DEF Receiving
    <3>2. Answered(2) /\ IsData(Answers[1])
      BY <1>1, <2>1, <2>2, <2>3, <3>1 DEF IInv, InStep, HeaderSent
    <3> QED BY <2>2, <2>3, <3>1, <3>2 DEF Answered
  <2>4. CASE stage = "response"
    <3>1. Answered(1)
      BY <1>1, <1>2, <2>1, <2>2, <2>4 DEF IInv, InStep, DataSent, HeaderSent
    <3> QED BY <2>2, <2>4, <3>1 DEF Answered
  <2> QED BY <2>3, <2>4 DEF Receiving
<1>4. /\ call # NoCall /\ got = 0 /\ outq = <<>> /\ devOpen = NoItem
      /\ call.op \in FesOps => devMode = "SRV"
      /\ \/ stage = "data" /\ CurLeg.dir = "read" /\ Answered(2) /\ IsData(Answers[1])
         \/ stage = "response" /\ Answered(1)
  BY <1>3, OwnHead DEF Doubt
<1>5. Head(inq).len = Need
  <2>1. CASE stage = "data"
    BY <1>1, <1>2, <1>4, <2>1 DEF IsData, Need
  <2>2. CASE stage = "response"
    BY <1>1, <1>4, <2>2 DEF Answered, IsResponse, Need, ResponseSize
  <2> QED BY <1>4, <2>1, <2>2
<1> QED BY <1>1, <1>4, <1>5

(* What the device finds in its pipe, all transfers having succeeded.      *)
LEMMA Outgoing ==
  ASSUME IInv, Synced, outq # <<>>
  PROVE  /\ call # NoCall /\ got = 0 /\ Answers = <<>> /\ DeviceAt(call, leg)
         /\ \/ /\ outq = <<Hdr>> /\ devOpen = NoItem
               /\ \/ stage = "data" /\ CurLeg.dir \in {"read", "write"}
                  \/ stage = "response" /\ CurLeg.dir = "none"
            \/ /\ stage = "response" /\ CurLeg.dir = "write"
               /\ \/ outq = <<Hdr, Body(call, leg)>> /\ devOpen = NoItem
                  \/ outq = <<Body(call, leg)>> /\ devOpen = Hdr
<1>1. call # NoCall /\ got = 0
  BY DEF IInv, InStep, Before
<1>2. CurLeg.dir \in {"read", "write", "none"} /\ stage \in {"request", "data", "response"}
  BY CurLegTyped, TypeParts DEF IInv, LegType, Host
<1>3. CASE stage = "request"
  BY <1>1, <1>3 DEF IInv, InStep, Before
<1>4. CASE stage = "data"
  BY <1>1, <1>2, <1>4 DEF IInv, InStep, HeaderSent, Collecting, Answered
<1>5. CASE stage = "response"
  BY <1>1, <1>2, <1>5 DEF IInv, InStep, HeaderSent, DataSent, Answered
<1> QED BY <1>2, <1>3, <1>4, <1>5

(* After a call has returned, InStep is all that is left to show, and      *)
(* nothing if the call failed in a way that counts.                        *)
LEMMA Returned ==
  ASSUME NEW code, NEW f, NEW t, Return(code, f, t)
  PROVE  Idle' /\ Deaf' /\ (t => InStep')
<1>1. call' = NoCall /\ leg' = 1 /\ stage' = "request" /\ got' = 0 /\ tainted' = t
  BY DEF Return
<1>2. NoCall.op \notin FesOps
  BY DEF NoCall, FesOps
<1> QED BY <1>1, <1>2 DEF Idle, Deaf, InStep, Synced

(* The steps after which a transfer has failed.                            *)
LEMMA FaultInStep ==
  ASSUME IInv, NullBuffer \/ SendFails \/ RecvFails \/ DevReset
               \/ BadMagic \/ RecvOverflow
  PROVE  InStep' /\ Idle' /\ Silent' /\ Deaf'
<1>1. CASE NullBuffer
  <2>1. Return("NULL_PTR", foreign, TRUE)
    BY <1>1 DEF NullBuffer
  <2> QED BY <1>1, <2>1, Returned DEF NullBuffer, device, IInv, Silent
<1>2. CASE SendFails
  <2>1. PICK code : Return(Mapped(code), foreign, TRUE)
    BY <1>2 DEF SendFails
  <2> QED BY <1>2, <2>1, Returned DEF SendFails, device, IInv, Silent
<1>3. CASE RecvFails
  <2>1. PICK code : Return(Mapped(code), foreign, TRUE)
    BY <1>3 DEF RecvFails
  <2> QED BY <1>3, <2>1, Returned DEF RecvFails, device, IInv, Silent
<1>4. CASE DevReset
  BY <1>4 DEF DevReset, host, IInv, InStep, Synced, Idle, Silent, Deaf
<1>5. CASE BadMagic
  <2>1. Return(Mapped("INVALID_RESPONSE"), Take, TRUE) /\ inq # <<>> /\ UNCHANGED device
    BY <1>5 DEF BadMagic, RecvResponse
  <2> QED BY <2>1, Returned DEF device, IInv, Silent
<1>6. CASE RecvOverflow
  <2>1. Return("USB_TRANSFER", Take, TRUE) /\ inq # <<>> /\ UNCHANGED device
    BY <1>6 DEF RecvOverflow
  <2> QED BY <2>1, Returned DEF device, IInv, Silent
<1> QED BY <1>1, <1>2, <1>3, <1>4, <1>5, <1>6

(* A new call, and the steps that send.                                    *)
LEMMA SendInStep ==
  ASSUME IInv, (\E c \in CallsWithId(ncalls + 1) : Invoke(c)) \/ Reopen
               \/ SendRequest \/ SendData
  PROVE  InStep' /\ Idle' /\ Silent' /\ Deaf'
<1> USE DEF IInv
<1>1. ASSUME NEW c \in CallsWithId(ncalls + 1), Invoke(c)
      PROVE  InStep' /\ Idle' /\ Silent' /\ Deaf'
  <2>1. /\ call = NoCall /\ leg = 1 /\ stage = "request" /\ got = 0
        /\ UNCHANGED <<leg, stage, got, tainted, outq, inq, device>>
        /\ call' \in {c, NoCall} /\ c.op \in AllOps /\ c \in CallType
    <3>1. c \in CallType /\ c.op \in AllOps
      BY InvokedTyped, BoundsAssumption, OpsAssumption, TypeParts DEF Counts, CallsWithId
    <3> QED BY <1>1, <3>1 DEF Invoke, Idle
  <2>2. NoCall.op \notin FesOps
    BY DEF NoCall, FesOps
  <2>3. ~tainted => Before /\ DeviceAt(call, leg)
    BY <2>1, <2>2 DEF InStep, Synced, Before
  <2>4. 1 \in DOMAIN Legs(call')
    BY <2>1, LegFacts, NoCallTyped, LenProperties
  <2>5. InStep'
    BY <2>1, <2>3, <2>4 DEF InStep, Synced, Before, DeviceAt, Answers, device
  <2>6. Idle' /\ Silent'
    BY <2>1 DEF Idle, Silent, device
  <2>7. Deaf'
    <3>1. ~tainted => outq = <<>> /\ inq = <<>> /\ pending = <<>> /\ devOpen = NoItem
      BY <2>3, AnswersFacts, TypeParts DEF Before
    <3> QED BY <2>1, <3>1 DEF Deaf, device
  <2> QED BY <2>5, <2>6, <2>7
<1>2. CASE Reopen
  <2>1. /\ call = NoCall /\ leg = 1 /\ stage = "request" /\ got = 0
        /\ outq = <<>> /\ inq = <<>> /\ pending = <<>> /\ devOpen = NoItem /\ devCall = NoCall
        /\ UNCHANGED <<call, leg, stage, got, outq, inq, devMode, devCall, devOpen, pending>>
    BY <1>2 DEF Reopen, Idle, Silent, host
  <2>2. NoCall.op \notin FesOps
    BY DEF NoCall, FesOps
  <2>3. (inq \o pending)' = <<>>
    BY <2>1
  <2> QED BY <2>1, <2>2, <2>3, <1>2
          DEF Reopen, InStep, Before, DeviceAt, Answers, Idle, Silent, Deaf
<1>3. CASE SendRequest
  <2>1. /\ call # NoCall /\ stage = "request" /\ outq' = Append(outq, Hdr) /\ attached
        /\ stage' = IF CurLeg.dir = "none" THEN "response" ELSE "data"
        /\ UNCHANGED <<call, leg, got, tainted, inq, device>>
    BY <1>3 DEF SendRequest, ghosts, Hdr
  <2>2. CurLeg.dir \in {"read", "write", "none"}
    BY CurLegTyped, TypeParts DEF LegType
  <2>3. InStep'
    <3> SUFFICES ASSUME Synced' PROVE InStep'
      BY DEF InStep
    <3>1. Synced
      BY <2>1 DEF Synced, device
    <3>2. Before /\ leg \in DOMAIN Legs(call) /\ got = 0
      BY <2>1, <3>1 DEF InStep
    <3>3. outq' = <<Hdr>>
      BY <2>1, <3>2 DEF Before
    <3>4. HeaderSent'
      BY <2>1, <3>2, <3>3 DEF Before, HeaderSent, DeviceAt, Answers, Hdr, device
    <3> QED BY <2>1, <2>2, <3>2, <3>4 DEF InStep, CurLeg
  <2>4. Deaf'
    <3>1. call.op \in FesOps => Hdr.call.op \in FesOps
      BY SentFacts, TypeParts
    <3>2. Hdr \in ItemType /\ outq \in Seq(ItemType)
      BY CurLegTyped, TypeParts DEF Hdr, Pipes
    <3> QED BY <2>1, <3>1, <3>2 DEF Deaf, device
  <2> QED BY <2>1, <2>3, <2>4 DEF Idle, Silent, device
<1>4. CASE SendData
  <2>1. /\ call # NoCall /\ stage = "data" /\ CurLeg.dir = "write" /\ attached
        /\ outq' = Append(outq, Body(call, leg)) /\ stage' = "response"
        /\ UNCHANGED <<call, leg, got, tainted, inq, device>>
    BY <1>4 DEF SendData, ghosts
  <2>2. InStep'
    <3> SUFFICES ASSUME Synced' PROVE InStep'
      BY DEF InStep
    <3>1. Synced
      BY <2>1 DEF Synced, device
    <3>2. (HeaderSent \/ Collecting) /\ leg \in DOMAIN Legs(call) /\ got = 0
      BY <2>1, <3>1 DEF InStep
    <3>3. DataSent'
      <4>1. CASE HeaderSent
        <5>1. outq' = <<Hdr, Body(call, leg)>>
          <6>1. \A a, b \in ItemType : Append(<<a>>, b) = <<a, b>>
            BY AppendOne
          <6>2. Hdr \in ItemType /\ Body(call, leg) \in ItemType
            BY CurLegTyped, TypeParts, Zenon DEF Hdr
          <6> QED BY <2>1, <4>1, <6>1, <6>2, Zenon DEF HeaderSent
        <5> QED BY <2>1, <4>1, <5>1 DEF HeaderSent, DataSent, DeviceAt, Answers, Hdr, device
      <4>2. CASE Collecting
        <5>1. outq' = <<Body(call, leg)>>
          BY <2>1, <4>2 DEF Collecting
        <5> QED BY <2>1, <4>2, <5>1 DEF Collecting, DataSent, DeviceAt, Answers, Hdr, device
      <4> QED BY <3>2, <4>1, <4>2
    <3> QED BY <2>1, <3>2, <3>3 DEF InStep, CurLeg
  <2>3. Deaf'
    <3>1. call.op \in FesOps => Body(call, leg).call.op \in FesOps
      BY SentFacts, TypeParts
    <3>2. Body(call, leg) \in ItemType /\ outq \in Seq(ItemType)
      BY CurLegTyped, TypeParts DEF Pipes
    <3> QED BY <2>1, <3>1, <3>2 DEF Deaf, device
  <2> QED BY <2>1, <2>2, <2>3 DEF Idle, Silent, device
<1> QED BY <1>1, <1>2, <1>3, <1>4

(* The steps that receive what they wait for, or less.                     *)
LEMMA ReceiveInStep ==
  ASSUME IInv, RecvPart \/ RecvData \/ Refused \/ LegDone \/ CallDone
  PROVE  InStep' /\ Idle' /\ Silent' /\ Deaf'
<1>1. /\ Receiving /\ inq # <<>> /\ inq' = Tail(inq) /\ UNCHANGED <<outq, device>>
      /\ call # NoCall
  BY DEF RecvPart, RecvData, Refused, LegDone, CallDone, RecvResponse, Receiving
<1>2. Silent'
  BY <1>1 DEF IInv, Silent, device
<1>3. Doubt \in BOOLEAN
  BY TypeParts DEF IInv, Host, Doubt, Take
<1>4. ASSUME ~Doubt
      PROVE  /\ got = 0 /\ outq = <<>> /\ devOpen = NoItem
             /\ call.op \in FesOps => devMode = "SRV"
             /\ Head(inq) = Answers[1] /\ Head(inq).len = Need
             /\ \/ stage = "data" /\ CurLeg.dir = "read" /\ Answered(2)
                \/ stage = "response" /\ Answered(1)
  BY <1>1, <1>4, Awaited
<1>5. /\ Answers' = Tail(inq) \o pending /\ Len(Answers') = Len(Answers) - 1
      /\ \A i \in 1..Len(Answers)-1 : Answers'[i] = Answers[i + 1]
      /\ Answers' \in Seq(ItemType)
  <2>1. Answers' = Tail(inq) \o pending
    BY <1>1 DEF Answers, device
  <2> QED BY <1>1, <2>1, AnswersFacts, TypeParts DEF IInv
<1>6. CASE RecvPart
  <2>1. Head(inq).len < Need /\ tainted' = Doubt /\ UNCHANGED <<call, leg, stage>>
    BY <1>6 DEF RecvPart
  <2>2. Need \in Int
    BY CurLegTyped, TypeParts DEF IInv, LegType, Need, ResponseSize, Host
  <2>3. tainted'
    BY <1>4, <2>1, <2>2
  <2>4. Idle'
    BY <1>1, <2>1 DEF IInv, Idle
  <2> QED BY <1>2, <2>1, <2>3, <2>4 DEF InStep, Synced, Deaf
<1>7. CASE RecvData
  <2>1. /\ stage = "data" /\ stage' = "response" /\ got' = 0 /\ tainted' = Doubt
        /\ UNCHANGED <<call, leg>>
    BY <1>7 DEF RecvData
  <2>2. InStep'
    <3> SUFFICES ASSUME ~Doubt PROVE InStep'
      BY <2>1 DEF InStep, Synced
    <3>1. /\ CurLeg.dir = "read" /\ Answered(2) /\ leg \in DOMAIN Legs(call)
      BY <1>4, <2>1, LegFacts, LenProperties, TypeParts DEF IInv, Host
    <3>2. Len(Answers') = 1 /\ Answers'[1] = Answers[2]
      BY <1>5, <3>1 DEF Answered
    <3>3. Answered(1)'
      BY <1>1, <2>1, <3>1, <3>2 DEF Answered, IsResponse, DeviceAfter, device
    <3> QED BY <1>1, <2>1, <3>1, <3>3 DEF InStep, CurLeg
  <2>3. Idle' /\ Deaf'
    BY <1>1, <1>4, <2>1 DEF IInv, Idle, Deaf, device
  <2> QED BY <1>2, <2>2, <2>3
<1>8. ASSUME NEW ok \in BOOLEAN, RecvResponse(TRUE, ok), ~Doubt
      PROVE  /\ outq' = <<>> /\ Answers' = <<>> /\ devOpen' = NoItem
             /\ IF ok /\ leg < Len(Legs(call)) THEN devCall' = call /\ devLeg' = leg + 1
                ELSE devCall' = NoCall
  <2>1. ok = Answers[1].ok /\ stage = "response"
    BY <1>4, <1>8 DEF RecvResponse
  <2>2. Answered(1)
    BY <1>4, <1>8, <2>1
  <2>3. Answers' = <<>>
    BY <1>5, <2>2 DEF Answered
  <2> QED BY <1>1, <1>4, <1>8, <2>1, <2>2, <2>3 DEF Answered, DeviceAfter, device
<1>9. CASE Refused
  <2>1. RecvResponse(TRUE, FALSE) /\ Return(Mapped("PROTOCOL"), Take, Doubt)
    BY <1>9 DEF Refused
  <2>2. InStep'
    BY <1>3, <1>8, <2>1 DEF Return, InStep, Synced, Before, DeviceAt
  <2> QED BY <1>2, <2>1, <2>2, Returned
<1>10. CASE CallDone
  <2>1. RecvResponse(TRUE, TRUE) /\ LastLeg /\ Return("SUCCESS", Take, Doubt)
    BY <1>10 DEF CallDone
  <2>2. Len(Legs(call)) \in 1..3
    BY LegFacts, TypeParts DEF IInv, Host
  <2>3. ~(leg < Len(Legs(call)))
    BY <2>1, <2>2 DEF LastLeg
  <2>4. InStep'
    BY <1>3, <1>8, <2>1, <2>3 DEF Return, InStep, Synced, Before, DeviceAt
  <2> QED BY <1>2, <2>1, <2>4, Returned
<1>11. CASE LegDone
  <2>1. /\ RecvResponse(TRUE, TRUE) /\ ~LastLeg /\ leg' = leg + 1
        /\ stage' = "request" /\ got' = 0 /\ tainted' = Doubt /\ UNCHANGED call
    BY <1>11 DEF LegDone
  <2>2. /\ Len(Legs(call)) \in 1..3 /\ leg \in 1..Len(Legs(call))
        /\ DOMAIN Legs(call) = 1..Len(Legs(call))
    BY LegFacts, LenProperties, TypeParts DEF IInv, Host
  <2>3. leg < Len(Legs(call)) /\ leg + 1 \in DOMAIN Legs(call) /\ leg + 1 # 1
    <3>1. \A n \in 1..3 : \A l \in 1..n : l # n => l < n /\ l + 1 \in 1..n /\ l + 1 # 1
      OBVIOUS
    <3> QED BY <2>1, <2>2, <3>1, Zenon DEF LastLeg
  <2>4. InStep'
    <3> SUFFICES ASSUME ~Doubt PROVE InStep'
      BY <2>1 DEF InStep, Synced
    <3>1. /\ outq' = <<>> /\ Answers' = <<>> /\ devOpen' = NoItem
          /\ devCall' = call /\ devLeg' = leg + 1
      BY <1>8, <2>1, <2>3
    <3>2. Before'
      BY <2>1, <2>3, <3>1 DEF Before, DeviceAt
    <3> QED BY <1>1, <2>1, <2>3, <3>2 DEF InStep
  <2>5. Idle' /\ Deaf'
    BY <1>1, <1>4, <2>1 DEF IInv, Idle, Deaf, device
  <2> QED BY <1>2, <2>4, <2>5
<1> QED BY <1>6, <1>7, <1>9, <1>10, <1>11

(* A header or body leaving the host's pipe: what is left is the rest.     *)
LEMMA Taken ==
  ASSUME NEW k, Taking(k)
  PROVE  /\ outq # <<>> /\ pending = <<>> /\ outq' = Tail(outq) /\ Head(outq).kind = k
         /\ \A a : outq = <<a>> => Head(outq) = a /\ outq' = <<>>
         /\ \A a, b : outq = <<a, b>> => Head(outq) = a /\ outq' = <<b>>
<1>1. \A a, b : /\ Head(<<a>>) = a /\ Tail(<<a>>) = <<>>
                /\ Head(<<a, b>>) = a /\ Tail(<<a, b>>) = <<b>>
  OBVIOUS
<1> QED BY <1>1 DEF Taking

(* What the device takes from the pipe while FES is not spoken keeps Deaf. *)
LEMMA DeafKept ==
  ASSUME IInv, NEW k, Taking(k), DevOnly,
         ~tainted /\ call.op \in FesOps /\ devMode # "SRV" => pending' = <<>> /\ devOpen' = NoItem
  PROVE  Deaf'
<1> SUFFICES ASSUME ~tainted /\ call.op \in FesOps /\ devMode # "SRV" PROVE Deaf'
  BY DEF DevOnly, host, ghosts, Deaf
<1>1. inq' = <<>> /\ pending' = <<>> /\ devOpen' = NoItem
  BY DEF IInv, Deaf, DevOnly
<1>2. \A i \in 1..Len(outq') : outq'[i].call.op \in FesOps
  <2>1. /\ outq \in Seq(ItemType) /\ outq # <<>> /\ outq' = Tail(outq)
        /\ \A i \in 1..Len(outq) : outq[i].call.op \in FesOps
    BY TypeParts DEF IInv, Deaf, Taking, Pipes
  <2>2. /\ Len(outq') = Len(outq) - 1 /\ Len(outq) \in Nat
        /\ \A i \in 1..Len(outq') : outq'[i] = outq[i + 1]
    BY <2>1, HeadTailProperties, LenProperties
  <2> QED BY <2>1, <2>2
<1> QED BY <1>1, <1>2 DEF Deaf

(* Headers of FES calls announce a FES leg.                                *)
LEMMA FesHeader ==
  ASSUME NEW i \in ItemType, i.call.op \in FesOps
  PROVE  LegOf(i).via = "fes"
  BY ItemFields, LegShape DEF LegOf, AllOps

(* What stays as it was in a step of the device alone.                     *)
LEMMA DevOnlyFacts ==
  ASSUME IInv, DevOnly
  PROVE  /\ Idle' /\ (outq # <<>> \/ pending # <<>> => Silent')
         /\ UNCHANGED <<call, leg, stage, got, inq, tainted, devMode>>
         /\ Synced' = Synced
  BY DEF DevOnly, host, ghosts, IInv, Idle, Silent, Synced

(* The device answers a request of the call in progress, and it is now     *)
(* where the host will expect it after the answer: InStep holds.           *)
LEMMA AnsweredInStep ==
  ASSUME IInv, Synced', DevOnly, call # NoCall,
         got = 0,
         \/ /\ CurLeg.dir \in {"write", "none"} /\ stage = "response"
            /\ Answered(1)'
         \/ /\ CurLeg.dir = "read" /\ stage = "data" /\ Answered(2)' /\ IsData(Answers[1])'
  PROVE  InStep'
<1>1. UNCHANGED <<call, leg, stage, got>> /\ leg \in DOMAIN Legs(call)
  BY LegFacts, LenProperties, TypeParts DEF DevOnly, host, IInv, Host
<1> QED BY <1>1 DEF InStep, CurLeg

(* With nothing in the host's pipe the answers are those still to be sent. *)
LEMMA PendingAlone ==
  ASSUME Pipes', inq' = <<>>
  PROVE  Answers' = pending'
  BY ConcatEmptySeq DEF Pipes, Answers

(* What responses and data look like to the host.                          *)
LEMMA AnswerItems ==
  /\ \A c, ok : LET r == Response(c, ok) IN
        r.kind = "response" /\ r.len = ResponseSize /\ r.call = c /\ r.ok = ok
  /\ \A n, c, st, m : LET d == Data(n, c, st, m) IN d.kind = "body" /\ d.len = n /\ d.call = c
  BY DEF Response, Data, Item

(* What the device finds when it takes something from its pipe.            *)
LEMMA Finds ==
  ASSUME IInv, NEW k, Taking(k), DevOnly, Synced
  PROVE  /\ call # NoCall /\ got = 0 /\ inq = <<>> /\ Answers = <<>> /\ DeviceAt(call, leg)
         /\ k = "header" => /\ Head(outq) = Hdr /\ devOpen = NoItem
                            /\ \/ /\ outq' = <<>>
                                  /\ \/ stage = "data" /\ CurLeg.dir \in {"read", "write"}
                                     \/ stage = "response" /\ CurLeg.dir = "none"
                               \/ /\ outq' = <<Body(call, leg)>>
                                  /\ stage = "response" /\ CurLeg.dir = "write"
         /\ k = "body" => /\ Head(outq) = Body(call, leg) /\ devOpen = Hdr /\ outq' = <<>>
                          /\ stage = "response" /\ CurLeg.dir = "write"
<1>1. /\ call # NoCall /\ got = 0 /\ Answers = <<>> /\ DeviceAt(call, leg)
      /\ \/ /\ outq = <<Hdr>> /\ devOpen = NoItem
            /\ \/ stage = "data" /\ CurLeg.dir \in {"read", "write"}
               \/ stage = "response" /\ CurLeg.dir = "none"
         \/ /\ stage = "response" /\ CurLeg.dir = "write"
            /\ \/ outq = <<Hdr, Body(call, leg)>> /\ devOpen = NoItem
               \/ outq = <<Body(call, leg)>> /\ devOpen = Hdr
  BY Outgoing, Taken
<1>2. Hdr.kind = "header" /\ Body(call, leg).kind = "body"
  BY TypeParts, SentFacts DEF IInv
<1>3. inq = <<>>
  BY <1>1, TypeParts, AnswersFacts DEF IInv
<1> QED BY <1>1, <1>2, <1>3, Taken

(* The current leg: who serves it, and its place in the command.           *)
LEMMA Place ==
  ASSUME IInv, Synced, call # NoCall
  PROVE  /\ call.op \in AllOps /\ LegOf(Hdr) = CurLeg
         /\ CurLeg.via = "fes" <=> call.op \in FesOps
         /\ call.op \in FesOps => Len(Legs(call)) = 1 /\ leg = 1 /\ devMode = "SRV"
         /\ call.op \notin FesOps =>
              /\ OnWire(call) = call /\ Len(Legs(call)) >= 2 /\ CurLeg.via = "usb"
              /\ CurLeg.dir \in {"read", "write"}
              /\ CurLeg.dir = "read" => leg # 1
              /\ CurLeg.dir = "write" /\ leg # 1 => leg = 2 /\ Len(Legs(call)) = 3
<1>1. Host /\ call \in CallType /\ leg \in 1..Len(Legs(call)) /\ call.op \in AllOps
  BY TypeParts DEF IInv, Host, Idle
<1>2. call.op \in FesOps => Len(Legs(call)) = 1 /\ leg = 1
  <2>1. call.op \in FesOps => Len(Legs(call)) = 1
    BY <1>1, LegShape, Zenon
  <2>2. \A l \in 1..1 : l = 1
    OBVIOUS
  <2> QED BY <1>1, <2>1, <2>2, Zenon
<1> QED BY <1>1, <1>2, LegShape, SentFacts, Zenon DEF Synced, CurLeg

(* A FES header is taken in FEL mode, or a header of a USB leg, only when  *)
(* the host is not in the middle of a FES call that will not be answered.  *)
LEMMA Heard ==
  ASSUME IInv, ~tainted, Taking("header"),
         LegOf(Head(outq)).via = "usb" \/ devMode = "SRV"
  PROVE  Synced
<1> SUFFICES ASSUME call.op \in FesOps, devMode # "SRV" PROVE FALSE
  BY DEF Synced
<1>1. Head(outq).call.op \in FesOps /\ Head(outq) \in ItemType
  BY TypeParts, PipeTyped, Taken DEF IInv, Deaf, Pipes
<1> QED BY <1>1, FesHeader

(* A read request is the one the command in progress expects: the answer   *)
(* is that command's, and the command moves on or ends.                    *)
LEMMA AnswerRead ==
  ASSUME IInv, Synced, NEW ok \in BOOLEAN, NEW st \in BOOLEAN, DevAnswerRead(ok, st)
  PROVE  /\ call # NoCall /\ call.op \notin FesOps /\ OnWire(call) = call
         /\ got = 0 /\ stage = "data" /\ CurLeg.dir = "read"
         /\ outq' = <<>> /\ devOpen' = NoItem
         /\ Answers' = <<Data(CurLeg.len, call, st,
                              IF call.op = "init" /\ leg = 2 THEN devMode ELSE "NULL"),
                         Response(call, ok)>>
         /\ IF ok /\ leg < Len(Legs(call)) THEN devCall' = call /\ devLeg' = leg + 1
            ELSE devCall' = NoCall
         /\ IF leg = Len(Legs(call)) /\ ok THEN Completes(call, st) ELSE UNCHANGED completed
<1> DEFINE h == Head(outq)
           expected == /\ devCall # NoCall
                       /\ devLeg \in DOMAIN Legs(devCall)
                       /\ Legs(devCall)[devLeg] = LegOf(h)
           last == expected /\ devLeg = Len(Legs(devCall))
           m == IF expected /\ devCall.op = "init" /\ devLeg = 2 THEN devMode ELSE "NULL"
<1>1. /\ Taking("header") /\ DevOnly /\ devOpen' = NoItem
      /\ LegOf(h).via = "usb" /\ LegOf(h).dir = "read"
      /\ pending' = <<Data(LegOf(h).len, devCall, st, m), Response(h.call, ok)>>
      /\ devCall' = IF expected /\ (~ok \/ last) THEN NoCall ELSE devCall
      /\ devLeg' = IF ~expected THEN devLeg ELSE IF ~ok \/ last THEN 1 ELSE devLeg + 1
      /\ IF last /\ ok THEN Completes(devCall, st) ELSE UNCHANGED completed
  BY DEF DevAnswerRead
<1>2. Host /\ Pipes' /\ call \in CallType /\ leg \in 1..Len(Legs(call)) /\ UNCHANGED inq
  <2>1. DevStep
    BY DEF DevStep
  <2> QED BY <1>1, <2>1, TypeParts, DeviceTyped, DevOnlyFacts DEF IInv, Host
<1>3. /\ call # NoCall /\ got = 0 /\ inq = <<>> /\ DeviceAt(call, leg) /\ outq' = <<>>
      /\ h = Hdr /\ LegOf(h) = CurLeg /\ h.call = OnWire(call)
      /\ stage = "data" /\ CurLeg.dir = "read" /\ CurLeg.via = "usb"
  BY <1>1, <1>2, Finds, Place, SentFacts
<1>4. OnWire(call) = call /\ leg # 1 /\ call.op \notin FesOps
  BY <1>3, Place
<1>5. devCall = call /\ devLeg = leg
  BY <1>3, <1>4 DEF DeviceAt
<1>6. expected /\ (last <=> leg = Len(Legs(call)))
  <2>1. leg \in DOMAIN Legs(call)
    BY <1>2, LegFacts, LenProperties
  <2> QED BY <1>3, <1>5, <2>1 DEF CurLeg
<1>7. leg < Len(Legs(call)) <=> leg # Len(Legs(call))
  <2>1. Len(Legs(call)) \in 1..3
    BY <1>2, LegFacts, Zenon
  <2> QED BY <1>2, <2>1
<1>8. m = IF call.op = "init" /\ leg = 2 THEN devMode ELSE "NULL"
  BY <1>5, <1>6, Zenon
<1> HIDE DEF expected, last, m
<1>9. Answers' = <<Data(CurLeg.len, call, st, m), Response(call, ok)>>
  BY <1>1, <1>2, <1>3, <1>4, <1>5, PendingAlone
<1>10. IF ok /\ leg < Len(Legs(call)) THEN devCall' = call /\ devLeg' = leg + 1
       ELSE devCall' = NoCall
  BY <1>1, <1>5, <1>6, <1>7
<1>11. IF leg = Len(Legs(call)) /\ ok THEN Completes(call, st) ELSE UNCHANGED completed
  BY <1>1, <1>5, <1>6
<1> QED BY <1>1, <1>3, <1>4, <1>8, <1>9, <1>10, <1>11

(* A FES command without data for the device is carried out and answered.  *)
LEMMA FesCommand ==
  ASSUME IInv, Synced, NEW ok \in BOOLEAN, DevFesCommand(ok)
  PROVE  /\ call # NoCall /\ call.op \in FesOps /\ leg = Len(Legs(call))
         /\ got = 0 /\ outq' = <<>> /\ devOpen' = NoItem /\ devCall' = NoCall
         /\ \/ /\ stage = "data" /\ CurLeg.dir = "read"
               /\ Answers' = <<Data(CurLeg.len, OnWire(call), ok, "NULL"),
                               Response(OnWire(call), ok)>>
            \/ /\ stage = "response" /\ CurLeg.dir = "none"
               /\ Answers' = <<Response(OnWire(call), ok)>>
         /\ Completes(OnWire(call), ok)
<1> DEFINE h == Head(outq)
<1>1. /\ Taking("header") /\ DevOnly /\ devOpen' = NoItem /\ devCall' = NoCall
      /\ LegOf(h).via = "fes" /\ LegOf(h).dir # "write"
      /\ pending' = IF LegOf(h).dir = "read"
                      THEN <<Data(LegOf(h).len, h.call, ok, "NULL"), Response(h.call, ok)>>
                      ELSE <<Response(h.call, ok)>>
      /\ Completes(h.call, ok)
  BY DEF DevFesCommand
<1>2. Host /\ Pipes' /\ UNCHANGED inq
  <2>1. DevStep
    BY DEF DevStep
  <2> QED BY <1>1, <2>1, TypeParts, DeviceTyped, DevOnlyFacts DEF IInv
<1>3. /\ call # NoCall /\ got = 0 /\ inq = <<>> /\ outq' = <<>>
      /\ LegOf(h) = CurLeg /\ CurLeg.via = "fes" /\ h.call = OnWire(call)
      /\ \/ stage = "data" /\ CurLeg.dir = "read"
         \/ stage = "response" /\ CurLeg.dir = "none"
  BY <1>1, <1>2, Finds, Place, SentFacts
<1>4. call.op \in FesOps /\ leg = Len(Legs(call))
  BY <1>3, Place
<1>5. Answers' = pending'
  BY <1>2, <1>3, PendingAlone
<1> QED BY <1>1, <1>3, <1>4, <1>5

(* Announced data are the data of the current leg, and the device's place  *)
(* in the command afterwards is the host's.                                *)
LEMMA TakeBody ==
  ASSUME IInv, Synced, NEW ok \in BOOLEAN, DevTakeBody(ok)
  PROVE  /\ call # NoCall /\ got = 0 /\ outq' = <<>> /\ devOpen' = NoItem
         /\ stage = "response" /\ CurLeg.dir = "write"
         /\ Answers' = <<Response(OnWire(call), ok)>>
         /\ IF ok /\ leg < Len(Legs(call)) THEN devCall' = call /\ devLeg' = leg + 1
            ELSE devCall' = NoCall
         /\ IF leg = Len(Legs(call))
              THEN call.op \in FesOps /\ Completes(OnWire(call), ok)
              ELSE UNCHANGED completed
<1>1. /\ Taking("body") /\ DevOnly /\ devOpen' = NoItem
      /\ pending' = <<Response(devOpen.call, ok)>>
      /\ \/ LegOf(devOpen).via = "fes" /\ Completes(devOpen.call, ok) /\ devCall' = NoCall
         \/ /\ LegOf(devOpen).via = "usb" /\ Head(outq).leg = 1
            /\ devCall' = IF ok THEN Head(outq).call ELSE NoCall
            /\ devLeg' = IF ok THEN 2 ELSE 1
            /\ UNCHANGED completed
         \/ /\ LegOf(devOpen).via = "usb" /\ Head(outq).leg # 1
            /\ devCall' = IF ok /\ devLeg = 2 THEN devCall ELSE NoCall
            /\ devLeg' = IF ok /\ devLeg = 2 THEN 3 ELSE 1
            /\ UNCHANGED completed
  BY DEF DevTakeBody
<1>2. Host /\ Pipes' /\ call \in CallType /\ leg \in 1..Len(Legs(call)) /\ UNCHANGED inq
  <2>1. DevStep
    BY DEF DevStep
  <2> QED BY <1>1, <2>1, TypeParts, DeviceTyped, DevOnlyFacts DEF IInv, Host
<1>3. /\ call # NoCall /\ got = 0 /\ inq = <<>> /\ DeviceAt(call, leg) /\ outq' = <<>>
      /\ devOpen = Hdr /\ Head(outq) = Body(call, leg)
      /\ stage = "response" /\ CurLeg.dir = "write"
  BY <1>1, Finds
<1>4. /\ LegOf(Hdr) = CurLeg /\ Hdr.call = OnWire(call)
      /\ Body(call, leg).call = OnWire(call) /\ Body(call, leg).leg = leg
  BY <1>2, SentFacts
<1>5. Answers' = <<Response(OnWire(call), ok)>>
  BY <1>1, <1>2, <1>3, <1>4, PendingAlone
<1>6. /\ IF ok /\ leg < Len(Legs(call)) THEN devCall' = call /\ devLeg' = leg + 1
         ELSE devCall' = NoCall
      /\ IF leg = Len(Legs(call))
           THEN call.op \in FesOps /\ Completes(OnWire(call), ok)
           ELSE UNCHANGED completed
  <2>1. CASE call.op \in FesOps
    <3>1. leg = Len(Legs(call)) /\ CurLeg.via = "fes" /\ Len(Legs(call)) = 1
      BY <1>3, <2>1, Place
    <3> QED BY <1>1, <1>3, <1>4, <2>1, <3>1
  <2>2. CASE call.op \notin FesOps /\ leg = 1
    <3>1. Len(Legs(call)) >= 2 /\ CurLeg.via = "usb" /\ OnWire(call) = call
      BY <1>3, <2>2, Place
    <3>2. Len(Legs(call)) \in 1..3
      BY <1>2, LegFacts, Zenon
    <3>3. \A n \in 1..3 : n >= 2 => 1 < n /\ 1 # n /\ 1 + 1 = 2
      OBVIOUS
    <3>4. leg < Len(Legs(call)) /\ leg # Len(Legs(call)) /\ leg + 1 = 2
      BY <2>2, <3>1, <3>2, <3>3, Zenon
    <3>5. "usb" # "fes"
      OBVIOUS
    <3>6. /\ devCall' = (IF ok THEN call ELSE NoCall) /\ devLeg' = (IF ok THEN 2 ELSE 1)
          /\ UNCHANGED completed
      BY <1>1, <1>3, <1>4, <2>2, <3>1, <3>5, Zenon
    <3> QED BY <3>4, <3>6, Zenon
  <2>3. CASE call.op \notin FesOps /\ leg # 1
    <3>1. leg = 2 /\ Len(Legs(call)) = 3 /\ CurLeg.via = "usb"
      BY <1>3, <2>3, Place
    <3>2. devCall = call /\ devLeg = 2
      BY <1>3, <3>1 DEF DeviceAt
    <3> QED BY <1>1, <1>3, <1>4, <2>3, <3>1, <3>2
  <2> QED BY <2>1, <2>2, <2>3, Zenon
<1> QED BY <1>1, <1>3, <1>5, <1>6

(* The device's steps.                                                     *)
LEMMA DeviceInStep ==
  ASSUME IInv, DevStep
  PROVE  InStep' /\ Idle' /\ Silent' /\ Deaf'
<1>1. ASSUME DevOpenWrite
      PROVE  InStep' /\ Idle' /\ Silent' /\ Deaf'
  <2>1. /\ Taking("header") /\ DevOnly /\ devOpen' = Head(outq)
        /\ UNCHANGED <<pending, devCall, devLeg>>
        /\ LegOf(Head(outq)).dir = "write" /\ (LegOf(Head(outq)).via = "fes" => devMode = "SRV")
    BY <1>1 DEF DevOpenWrite
  <2>2. InStep'
    <3> SUFFICES ASSUME Synced' PROVE InStep'
      BY DEF InStep
    <3>1. Synced /\ UNCHANGED <<call, leg, stage, got, inq>>
      BY <2>1, DevOnlyFacts
    <3>2. /\ call # NoCall /\ got = 0 /\ Answers = <<>> /\ DeviceAt(call, leg)
          /\ Head(outq) = Hdr /\ CurLeg.dir = "write"
          /\ \/ outq' = <<>> /\ stage = "data"
             \/ outq' = <<Body(call, leg)>> /\ stage = "response"
      BY <2>1, <3>1, Finds, Place
    <3>3. leg \in DOMAIN Legs(call)
      BY LegFacts, LenProperties, TypeParts DEF IInv, Host
    <3> QED BY <2>1, <3>1, <3>2, <3>3
            DEF InStep, Collecting, DataSent, DeviceAt, Answers, CurLeg, Hdr
  <2>3. Deaf'
    <3>1. ~(~tainted /\ call.op \in FesOps /\ devMode # "SRV")
      <4>1. Head(outq) \in ItemType
        BY <2>1, PipeTyped, Taken, TypeParts DEF IInv, Pipes
      <4>2. LegOf(Head(outq)).via = "usb" \/ devMode = "SRV"
        BY <2>1, <4>1, ItemFields DEF LegType
      <4> QED BY <2>1, <4>2, Heard DEF Synced
    <3> QED BY <2>1, <3>1, DeafKept
  <2> QED BY <2>1, <2>2, <2>3, DevOnlyFacts, Taken
<1>2. ASSUME DevDrop
      PROVE  InStep' /\ Idle' /\ Silent' /\ Deaf'
  <2>1. /\ \/ Taking("header") /\ LegOf(Head(outq)).via = "fes" /\ devMode = "FEL"
           \/ Taking("body") /\ devOpen = NoItem
           \/ Taking("body") /\ devOpen # NoItem /\ Head(outq).len # LegOf(devOpen).len
        /\ devOpen' = NoItem /\ pending' = pending /\ DevOnly
    BY <1>2 DEF DevDrop
  <2>2. InStep'
    <3> SUFFICES ASSUME Synced' PROVE FALSE
      BY DEF InStep
    <3>1. Synced
      BY <2>1, DevOnlyFacts
    <3>2. Hdr # NoItem /\ LegOf(Hdr) = CurLeg /\ Body(call, leg).len = CurLeg.len
      BY SentFacts, TypeParts DEF IInv
    <3>3. CASE Taking("header") /\ LegOf(Head(outq)).via = "fes" /\ devMode = "FEL"
      BY <2>1, <3>1, <3>2, <3>3, Finds, Place
    <3>4. CASE Taking("body")
      BY <2>1, <3>1, <3>2, <3>4, Finds, Taken
    <3> QED BY <2>1, <3>3, <3>4
  <2>3. pending = <<>> /\ outq # <<>>
    BY <2>1, Taken
  <2>4. Deaf'
    BY <2>1, <2>3, DeafKept
  <2> QED BY <2>1, <2>2, <2>3, <2>4, DevOnlyFacts
<1>3. ASSUME DevSend
      PROVE  InStep' /\ Idle' /\ Silent' /\ Deaf'
  <2>1. /\ pending # <<>> /\ inq' = Append(inq, Head(pending)) /\ pending' = Tail(pending)
        /\ UNCHANGED <<call, leg, stage, got, tainted, outq, attached, devMode, devCall, devLeg,
                       devOpen>>
    BY <1>3 DEF DevSend, host, ghosts
  <2>2. Answers' = Answers
    <3>1. Append(inq, Head(pending)) \o Tail(pending) = Answers
      BY <2>1, AnswersFacts, TypeParts DEF IInv
    <3> QED BY <2>1, <3>1 DEF Answers
  <2>3. InStep'
    BY <2>1, <2>2 DEF IInv, InStep, Synced, CurLeg, Before, HeaderSent, Collecting, DataSent,
         Answered, IsResponse, IsData, DeviceAfter, DeviceAt, Hdr
  <2> QED BY <2>1, <2>3 DEF IInv, Idle, Silent, Deaf
<1>4. ASSUME NEW ok \in BOOLEAN, DevFesCommand(ok)
      PROVE  InStep' /\ Idle' /\ Silent' /\ Deaf'
  <2>1. Taking("header") /\ devMode = "SRV" /\ DevOnly
    BY <1>4 DEF DevFesCommand
  <2>2. InStep'
    <3> SUFFICES ASSUME Synced' PROVE InStep'
      BY DEF InStep
    <3>1. Synced /\ UNCHANGED <<call, leg, stage>>
      BY <2>1, DevOnlyFacts
    <3>2. CASE CurLeg.dir = "read"
      <4>1. Answered(2)' /\ IsData(Answers[1])'
        BY <1>4, <3>1, <3>2, FesCommand, AnswerItems
           DEF Answered, IsResponse, IsData, DeviceAfter, CurLeg
      <4> QED BY <1>4, <2>1, <3>1, <3>2, <4>1, FesCommand, AnsweredInStep
    <3>3. CASE CurLeg.dir = "none"
      <4>1. Answered(1)'
        BY <1>4, <3>1, <3>3, FesCommand, AnswerItems DEF Answered, IsResponse, DeviceAfter
      <4> QED BY <1>4, <2>1, <3>1, <3>3, <4>1, FesCommand, AnsweredInStep
    <3> QED BY <1>4, <3>1, <3>2, <3>3, FesCommand
  <2>3. Deaf'
    BY <2>1, DeafKept
  <2> QED BY <2>1, <2>2, <2>3, DevOnlyFacts, Taken
<1>5. ASSUME NEW ok \in BOOLEAN, DevTakeBody(ok)
      PROVE  InStep' /\ Idle' /\ Silent' /\ Deaf'
  <2>1. Taking("body") /\ DevOnly /\ devOpen # NoItem
    BY <1>5 DEF DevTakeBody
  <2>2. InStep'
    <3> SUFFICES ASSUME Synced' PROVE InStep'
      BY DEF InStep
    <3>1. Synced /\ UNCHANGED <<call, leg, stage>>
      BY <2>1, DevOnlyFacts
    <3>2. Answered(1)'
      BY <1>5, <3>1, TakeBody, AnswerItems DEF Answered, IsResponse, DeviceAfter
    <3> QED BY <1>5, <2>1, <3>1, <3>2, TakeBody, AnsweredInStep
  <2>3. ~(~tainted /\ call.op \in FesOps /\ devMode # "SRV")
    BY <2>1 DEF IInv, Deaf
  <2>4. Deaf'
    BY <2>1, <2>3, DeafKept
  <2> QED BY <2>1, <2>2, <2>4, DevOnlyFacts, Taken
<1>6. ASSUME NEW ok \in BOOLEAN, NEW st \in BOOLEAN, DevAnswerRead(ok, st)
      PROVE  InStep' /\ Idle' /\ Silent' /\ Deaf'
  <2>1. Taking("header") /\ DevOnly /\ LegOf(Head(outq)).via = "usb"
    BY <1>6 DEF DevAnswerRead
  <2>2. InStep'
    <3> SUFFICES ASSUME Synced' PROVE InStep'
      BY DEF InStep
    <3>1. Synced /\ UNCHANGED <<call, leg, stage>>
      BY <2>1, DevOnlyFacts
    <3>2. Answered(2)' /\ IsData(Answers[1])'
      BY <1>6, <3>1, AnswerRead, AnswerItems
         DEF Answered, IsResponse, IsData, DeviceAfter, CurLeg
    <3> QED BY <1>6, <2>1, <3>1, <3>2, AnswerRead, AnsweredInStep
  <2>3. ~(~tainted /\ call.op \in FesOps /\ devMode # "SRV")
    BY <2>1, Heard DEF Synced
  <2>4. Deaf'
    BY <2>1, <2>3, DeafKept
  <2> QED BY <2>1, <2>2, <2>4, DevOnlyFacts, Taken
<1> QED BY <1>1, <1>2, <1>3, <1>4, <1>5, <1>6 DEF DevStep

(***************************************************************************)
(* The calls around: what is in the pipes or with the device belongs to    *)
(* the call in progress or to an earlier one.                              *)
(***************************************************************************)
(* Items of earlier calls stay so when one is taken away or added.         *)
LEMMA EarlierKept ==
  ASSUME NEW q \in Seq(ItemType), NEW m \in Nat, \A n \in 1..Len(q) : q[n].call.id <= m
  PROVE  /\ q # <<>> => /\ Head(q).call.id <= m
                        /\ \A n \in 1..Len(Tail(q)) : Tail(q)[n].call.id <= m
         /\ \A i \in ItemType : i.call.id <= m =>
              \A n \in 1..Len(Append(q, i)) : Append(q, i)[n].call.id <= m
<1>1. Len(q) \in Nat
  BY LenProperties
<1>2. ASSUME q # <<>>
      PROVE  /\ Head(q).call.id <= m
             /\ \A n \in 1..Len(Tail(q)) : Tail(q)[n].call.id <= m
  <2>1. /\ Head(q) = q[1] /\ Len(q) >= 1 /\ Len(Tail(q)) = Len(q) - 1
        /\ \A n \in 1..Len(Tail(q)) : Tail(q)[n] = q[n + 1]
    BY <1>2
  <2>2. \A n \in 1..Len(Tail(q)) : n + 1 \in 1..Len(q)
    BY <1>1, <2>1
  <2> QED BY <1>1, <2>1, <2>2
<1>3. ASSUME NEW i \in ItemType, i.call.id <= m, NEW n \in 1..Len(Append(q, i))
      PROVE  Append(q, i)[n].call.id <= m
  <2>1. /\ Len(Append(q, i)) = Len(q) + 1 /\ Append(q, i)[Len(q) + 1] = i
        /\ \A k \in 1..Len(q) : Append(q, i)[k] = q[k]
    BY AppendProperties
  <2>2. n \in 1..Len(q) \/ n = Len(q) + 1
    BY <1>1, <2>1
  <2> QED BY <1>3, <2>1, <2>2
<1> QED BY <1>2, <1>3

(* Answers that the device adds to what is on its way.                     *)
LEMMA AnswersAdded ==
  ASSUME Pipes, pending = <<>>, UNCHANGED inq, pending' \in Seq(ItemType)
  PROVE  /\ Answers = inq /\ Answers' \in Seq(ItemType)
         /\ Len(Answers') = Len(Answers) + Len(pending')
         /\ \A n \in 1..Len(Answers) : Answers'[n] = Answers[n]
         /\ \A n \in 1..Len(pending') : Answers'[Len(Answers) + n] = pending'[n]
<1>1. Answers = inq /\ inq \in Seq(ItemType) /\ Len(inq) \in Nat /\ Len(pending') \in Nat
  BY ConcatEmptySeq, LenProperties DEF Pipes, Answers
<1>2. Answers' = inq \o pending'
  BY DEF Answers
<1> HIDE DEF Answers
<1>3. /\ inq \o pending' \in Seq(ItemType)
      /\ Len(inq \o pending') = Len(inq) + Len(pending')
      /\ \A n \in 1..Len(inq) + Len(pending') :
           (inq \o pending')[n] = IF n <= Len(inq) THEN inq[n] ELSE pending'[n - Len(inq)]
  BY <1>1, ConcatProperties
<1>4. ASSUME NEW n \in 1..Len(inq)
      PROVE  (inq \o pending')[n] = inq[n]
  BY <1>1, <1>3
<1>5. ASSUME NEW n \in 1..Len(pending')
      PROVE  (inq \o pending')[Len(inq) + n] = pending'[n]
  <2>1. Len(inq) + n \in 1..Len(inq) + Len(pending') /\ ~(Len(inq) + n <= Len(inq))
        /\ (Len(inq) + n) - Len(inq) = n
    BY <1>1
  <2> QED BY <1>3, <2>1
<1> QED BY <1>1, <1>2, <1>3, <1>4, <1>5

(* What the device adds to its answers, keeps of its own or takes up       *)
(* belongs to the calls it has already heard of.                           *)
LEMMA DeviceWhose ==
  ASSUME TypeOK, DevStep, ~DevSend
  PROVE  /\ outq # <<>> /\ pending = <<>> /\ outq' = Tail(outq) /\ DevOnly
         /\ pending' \in Seq(ItemType) /\ Len(pending') <= 2
         /\ \A n \in 1..Len(pending') :
              pending'[n].call \in {Head(outq).call, devOpen.call, devCall}
         /\ devOpen'.call \in {Head(outq).call, NoCall}
         /\ devCall' \in {Head(outq).call, devCall, NoCall}
<1>1. \A c, ok : Response(c, ok).call = c
  BY AnswerItems
<1>2. \A n, c, st, m : Data(n, c, st, m).call = c
  BY AnswerItems
<1>3. ASSUME NEW S, NEW a, a.call \in S, pending' = <<a>>
      PROVE  Len(pending') <= 2 /\ \A n \in 1..Len(pending') : pending'[n].call \in S
  BY <1>3
<1>4. ASSUME NEW S, NEW a, NEW b, a.call \in S, b.call \in S, pending' = <<a, b>>
      PROVE  Len(pending') <= 2 /\ \A n \in 1..Len(pending') : pending'[n].call \in S
  <2>1. Len(<<a, b>>) = 2 /\ \A n \in 1..2 : n = 1 \/ n = 2
    OBVIOUS
  <2>2. <<a, b>>[1] = a /\ <<a, b>>[2] = b
    OBVIOUS
  <2>3. Len(pending') <= 2
    BY <1>4, <2>1
  <2> QED BY <1>4, <2>1, <2>2, <2>3, Zenon
<1>5. NoItem.call = NoCall
  BY DEF NoItem, Item
<1>6. pending' \in Seq(ItemType)
  BY DeviceTyped, TypeParts DEF Pipes
<1> DEFINE Known == {Head(outq).call, devOpen.call, devCall}
<1>7. CASE DevOpenWrite \/ DevDrop
  <2>1. /\ \E k : Taking(k)
        /\ DevOnly /\ pending' = pending /\ devCall' = devCall
        /\ devOpen' = Head(outq) \/ devOpen' = NoItem
    BY <1>7 DEF DevOpenWrite, DevDrop
  <2>2. outq # <<>> /\ pending = <<>> /\ outq' = Tail(outq)
    BY <2>1, Taken
  <2> QED BY <1>5, <1>6, <2>1, <2>2
<1>8. ASSUME NEW ok \in BOOLEAN, DevFesCommand(ok)
      PROVE  /\ Taking("header") /\ DevOnly /\ devOpen' = NoItem /\ devCall' = NoCall
             /\ Len(pending') <= 2 /\ \A n \in 1..Len(pending') : pending'[n].call \in Known
  <2>1. /\ Taking("header") /\ DevOnly /\ devOpen' = NoItem /\ devCall' = NoCall
        /\ \/ pending' = <<Data(LegOf(Head(outq)).len, Head(outq).call, ok, "NULL"),
                          Response(Head(outq).call, ok)>>
           \/ pending' = <<Response(Head(outq).call, ok)>>
    BY <1>8 DEF DevFesCommand
  <2>2. Head(outq).call \in Known
    OBVIOUS
  <2> HIDE DEF Known
  <2>3. Response(Head(outq).call, ok).call \in Known
    BY <1>1, <2>2
  <2>4. Data(LegOf(Head(outq)).len, Head(outq).call, ok, "NULL").call \in Known
    BY <1>2, <2>2
  <2> QED BY <1>3, <1>4, <2>1, <2>3, <2>4
<1>9. ASSUME NEW ok \in BOOLEAN, DevTakeBody(ok)
      PROVE  /\ Taking("body") /\ DevOnly /\ devOpen' = NoItem
             /\ devCall' \in {Head(outq).call, devCall, NoCall}
             /\ Len(pending') <= 2 /\ \A n \in 1..Len(pending') : pending'[n].call \in Known
  <2>1. /\ Taking("body") /\ DevOnly /\ devOpen' = NoItem
        /\ devCall' \in {Head(outq).call, devCall, NoCall}
        /\ pending' = <<Response(devOpen.call, ok)>>
    BY <1>9 DEF DevTakeBody
  <2>2. devOpen.call \in Known
    OBVIOUS
  <2> HIDE DEF Known
  <2> QED BY <1>1, <1>3, <2>1, <2>2
<1>10. ASSUME NEW ok \in BOOLEAN, NEW st \in BOOLEAN, DevAnswerRead(ok, st)
       PROVE  /\ Taking("header") /\ DevOnly /\ devOpen' = NoItem
              /\ devCall' \in {devCall, NoCall}
              /\ Len(pending') <= 2 /\ \A n \in 1..Len(pending') : pending'[n].call \in Known
  <2>1. /\ Taking("header") /\ DevOnly /\ devOpen' = NoItem
        /\ devCall' \in {devCall, NoCall}
        /\ \E m : pending' = <<Data(LegOf(Head(outq)).len, devCall, st, m),
                               Response(Head(outq).call, ok)>>
    BY <1>10 DEF DevAnswerRead
  <2>2. Head(outq).call \in Known /\ devCall \in Known
    OBVIOUS
  <2> HIDE DEF Known
  <2> QED BY <1>1, <1>2, <1>4, <2>1, <2>2
<1> HIDE DEF Known
<1>11. CASE \E ok \in BOOLEAN : DevFesCommand(ok)
  BY <1>5, <1>6, <1>8, <1>11, Taken DEF Known
<1>12. CASE \E ok \in BOOLEAN : DevTakeBody(ok)
  BY <1>5, <1>6, <1>9, <1>12, Taken DEF Known
<1>13. CASE \E ok, st \in BOOLEAN : DevAnswerRead(ok, st)
  BY <1>5, <1>6, <1>10, <1>13, Taken DEF Known
<1> QED BY <1>7, <1>11, <1>12, <1>13 DEF DevStep

(* Ids as one step of the device or the host changes them.                 *)
LEMMA IdsKept ==
  ASSUME IInv, [Next]_vars
  PROVE  Ids'
<1>0. /\ Pipes /\ Pipes' /\ ncalls \in Nat /\ ncalls' \in Nat /\ Host
      /\ devOpen.call \in CallType /\ devCall \in CallType /\ call \in CallType
  <2>1. TypeOK /\ TypeOK'
    BY StepTyped DEF IInv
  <2> QED BY <2>1, TypeParts, ItemFields, BoundsAssumption DEF Counts, Device, Host
<1>1. NoCall.id = 0 /\ NoItem.call = NoCall
  BY DEF NoCall, NoItem, Item
<1>2. /\ \A n \in 1..Len(outq) : outq[n].call.id <= ncalls
      /\ \A n \in 1..Len(Answers) : Answers[n].call.id <= ncalls
      /\ devOpen.call.id <= ncalls /\ devCall.id <= ncalls
      /\ call # NoCall => call.id = ncalls /\ call.id # 0
  BY DEF IInv, Ids
<1>3. ASSUME NEW c \in CallsWithId(ncalls + 1), Invoke(c)
      PROVE  Ids'
  <2>1. /\ call' \in {c, NoCall} /\ c.id = ncalls + 1 /\ ncalls' = ncalls + 1 /\ c.id # 0
        /\ UNCHANGED <<outq, inq, pending, devOpen, devCall>>
    <3>1. c.id = ncalls + 1 /\ ncalls + 1 # 0
      BY <1>0 DEF CallsWithId
    <3> QED BY <1>3, <3>1 DEF Invoke, device
  <2>2. Answers' = Answers
    BY <2>1 DEF Answers
  <2>3. /\ \A n \in 1..Len(outq) : outq[n].call.id <= ncalls + 1
        /\ \A n \in 1..Len(Answers) : Answers[n].call.id <= ncalls + 1
    <3>1. \A i \in ItemType : i.call.id \in Nat
      BY ItemFields DEF CallType
    <3>2. \A k \in Nat : k <= ncalls => k <= ncalls + 1
      BY <1>0
    <3>3. /\ \A n \in 1..Len(outq) : outq[n] \in ItemType
          /\ \A n \in 1..Len(Answers) : Answers[n] \in ItemType
      BY <1>0, AnswersFacts, ElementOfSeq DEF Pipes
    <3> QED BY <1>2, <3>1, <3>2, <3>3
  <2>4. devOpen.call.id <= ncalls + 1 /\ devCall.id <= ncalls + 1
    BY <1>0, <1>2 DEF CallType
  <2> QED BY <2>1, <2>2, <2>3, <2>4 DEF Ids
<1>4. ASSUME SendRequest \/ SendData \/ SendFails
      PROVE  Ids'
  <2>1. PICK i \in ItemType : /\ i.call.id = call.id /\ call # NoCall
                              /\ outq' = outq \/ outq' = Append(outq, i)
    <3>1. /\ Header(call, leg) \in ItemType /\ Body(call, leg) \in ItemType
          /\ Header(call, leg).call.id = call.id /\ Body(call, leg).call.id = call.id
      BY <1>0, CurLegTyped, SentFacts, WireId DEF Hdr
    <3> QED BY <1>4, <3>1 DEF SendRequest, SendData, SendFails
  <2>2. /\ call' \in {call, NoCall}
        /\ UNCHANGED <<ncalls, inq, pending, devOpen, devCall>>
    BY <1>4 DEF SendRequest, SendData, SendFails, Return, ghosts, device
  <2>3. Answers' = Answers
    BY <2>2 DEF Answers
  <2>4. \A n \in 1..Len(outq') : outq'[n].call.id <= ncalls
    <3>1. i.call.id <= ncalls
      BY <1>0, <1>2, <2>1
    <3> QED BY <1>0, <1>2, <2>1, <3>1, EarlierKept DEF Pipes
  <2> QED BY <1>2, <2>2, <2>3, <2>4 DEF Ids
<1>5. ASSUME NullBuffer \/ RecvFails \/ RecvPart \/ RecvData \/ RecvOverflow
             \/ BadMagic \/ Refused \/ LegDone \/ CallDone
      PROVE  Ids'
  <2>1. /\ call' \in {call, NoCall} /\ UNCHANGED <<ncalls, outq, pending, devOpen, devCall>>
        /\ inq' = inq \/ (inq # <<>> /\ inq' = Tail(inq))
    BY <1>5 DEF NullBuffer, RecvFails, RecvPart, RecvData, RecvOverflow, BadMagic, Refused,
         LegDone, CallDone, RecvResponse, Return, device
  <2>2. \A n \in 1..Len(Answers') : Answers'[n].call.id <= ncalls
    <3>1. CASE inq' = inq
      <4>1. Answers' = Answers
        BY <2>1, <3>1 DEF Answers
      <4> QED BY <1>2, <4>1
    <3>2. CASE inq # <<>> /\ inq' = Tail(inq)
      <4>1. /\ Len(Answers') = Len(Answers) - 1 /\ Len(Answers) \in Nat
            /\ \A n \in 1..Len(Answers)-1 : Answers'[n] = Answers[n + 1]
        <5>1. Answers' = Tail(inq) \o pending
          BY <2>1, <3>2 DEF Answers
        <5> QED BY <1>0, <3>2, <5>1, AnswersFacts, LenProperties
      <4> QED BY <1>2, <4>1
    <3> QED BY <2>1, <3>1, <3>2
  <2> QED BY <1>2, <2>1, <2>2 DEF Ids
<1>6. CASE Reopen
  <2>1. UNCHANGED <<call, ncalls, outq, inq, pending, devOpen, devCall>>
    BY <1>6 DEF Reopen, host
  <2>2. Answers' = Answers
    BY <2>1 DEF Answers
  <2> QED BY <1>2, <2>1, <2>2 DEF Ids
<1>7. CASE DevReset
  <2>1. /\ UNCHANGED <<call, ncalls>> /\ outq' = <<>> /\ inq' = <<>> /\ pending' = <<>>
        /\ devOpen' = NoItem /\ devCall' = NoCall
    BY <1>7 DEF DevReset, host
  <2>2. Answers' = <<>>
    BY <2>1 DEF Answers
  <2> QED BY <1>0, <1>1, <1>2, <2>1, <2>2 DEF Ids
<1>8. CASE DevSend
  <2>1. UNCHANGED <<call, ncalls, outq, devOpen, devCall>>
    BY <1>8 DEF DevSend, host, ghosts
  <2>2. Answers' = Answers
    <3>1. Append(inq, Head(pending)) \o Tail(pending) = Answers
      BY <1>0, <1>8, AnswersFacts DEF DevSend
    <3> QED BY <1>8, <3>1 DEF DevSend, Answers
  <2> QED BY <1>2, <2>1, <2>2 DEF Ids
<1>9. CASE DevStep /\ ~DevSend
  <2>1. /\ outq # <<>> /\ pending = <<>> /\ outq' = Tail(outq) /\ DevOnly
        /\ pending' \in Seq(ItemType)
        /\ \A n \in 1..Len(pending') :
             pending'[n].call \in {Head(outq).call, devOpen.call, devCall}
        /\ devOpen'.call \in {Head(outq).call, NoCall}
        /\ devCall' \in {Head(outq).call, devCall, NoCall}
    BY <1>9, DeviceWhose DEF IInv
  <2>2. UNCHANGED <<call, ncalls, inq>>
    BY <2>1 DEF DevOnly, host, ghosts
  <2>3. Head(outq).call.id <= ncalls /\ \A n \in 1..Len(outq') : outq'[n].call.id <= ncalls
    BY <1>0, <1>2, <2>1, EarlierKept DEF Pipes
  <2>4. devOpen'.call.id <= ncalls /\ devCall'.id <= ncalls
    BY <1>0, <1>1, <1>2, <2>1, <2>3
  <2>5. \A n \in 1..Len(pending') : pending'[n].call.id <= ncalls
    BY <1>2, <2>1, <2>3
  <2>6. \A n \in 1..Len(Answers') : Answers'[n].call.id <= ncalls
    <3>1. /\ Len(Answers') = Len(Answers) + Len(pending')
          /\ \A n \in 1..Len(Answers) : Answers'[n] = Answers[n]
          /\ \A n \in 1..Len(pending') : Answers'[Len(Answers) + n] = pending'[n]
          /\ Len(Answers) \in Nat /\ Len(pending') \in Nat
      BY <1>0, <2>1, <2>2, AnswersAdded, AnswersFacts, LenProperties
    <3>2. ASSUME NEW n \in 1..Len(Answers')
          PROVE  n \in 1..Len(Answers) \/ (n - Len(Answers) \in 1..Len(pending')
                                           /\ n = Len(Answers) + (n - Len(Answers)))
      BY <3>1
    <3> QED BY <1>2, <2>5, <3>1, <3>2
  <2> QED BY <1>2, <2>2, <2>3, <2>4, <2>6 DEF Ids
<1>10. CASE UNCHANGED vars
  <2>1. Answers' = Answers /\ UNCHANGED <<call, ncalls, outq, devOpen, devCall>>
    BY <1>10 DEF vars, host, ghosts, device, Answers
  <2> QED BY <1>2, <2>1 DEF Ids
<1> QED BY <1>3, <1>4, <1>5, <1>6, <1>7, <1>8, <1>9, <1>10 DEF Next, HostStep, Finished

(***************************************************************************)
(* A call in the queue behind what earlier calls left.                     *)
(***************************************************************************)
(* Sending adds to what is the call's own at the end of the pipe.          *)
LEMMA AheadAppend ==
  ASSUME NEW q \in Seq(ItemType), NEW i \in ItemType, NEW k \in Nat, Ahead(q, k)
  PROVE  LET r == Append(q, i) IN
         /\ Len(r) = Len(q) + 1 /\ Len(r) >= k + 1 /\ Len(r) - 1 = Len(q)
         /\ \A n \in 1..Len(r)-(k + 1) : r[n].call.id # call.id
         /\ r[Len(r)] = i /\ \A n \in 1..Len(q) : r[n] = q[n]
<1>1. /\ Len(Append(q, i)) = Len(q) + 1 /\ Len(q) \in Nat
      /\ Append(q, i)[Len(q) + 1] = i /\ \A n \in 1..Len(q) : Append(q, i)[n] = q[n]
  BY AppendProperties, LenProperties
<1>2. /\ Len(q) >= k /\ \A n \in 1..Len(q)-k : q[n].call.id # call.id
  BY DEF Ahead
<1>3. \A n \in 1..(Len(q) + 1)-(k + 1) : n \in 1..Len(q)-k /\ n \in 1..Len(q)
  BY <1>1, <1>2
<1> QED BY <1>1, <1>2, <1>3

(* Taking what is not the call's own leaves its own at the end.            *)
LEMMA AheadTail ==
  ASSUME NEW q \in Seq(ItemType), NEW k \in Nat, Ahead(q, k), Len(q) > k
  PROVE  /\ Head(q).call.id # call.id
         /\ Len(Tail(q)) = Len(q) - 1 /\ Len(Tail(q)) >= k
         /\ \A n \in 1..Len(Tail(q))-k : Tail(q)[n].call.id # call.id
         /\ \A n \in 1..Len(q)-1 : Tail(q)[n] = q[n + 1]
<1>1. Len(q) \in Nat /\ Len(q) >= 1
  BY LenProperties
<1>2. /\ Head(q) = q[1] /\ Len(Tail(q)) = Len(q) - 1
      /\ \A n \in 1..Len(q)-1 : Tail(q)[n] = q[n + 1]
  BY <1>1
<1>3. 1 \in 1..Len(q)-k /\ \A n \in 1..(Len(q) - 1)-k : n + 1 \in 1..Len(q)-k /\ n \in 1..Len(q)-1
  BY <1>1
<1> QED BY <1>1, <1>2, <1>3 DEF Ahead

(* A device that has not come to the call still has not when it serves     *)
(* something of an earlier one.                                            *)
LEMMA StillUncome ==
  ASSUME IInv, Uncome, DevStep, ~DevSend, call # NoCall, Head(outq).call.id # call.id
  PROVE  Uncome' /\ \A n \in 1..Len(Answers') : Answers'[n].call.id # call'.id
<1>1. /\ outq # <<>> /\ pending = <<>> /\ DevOnly
      /\ pending' \in Seq(ItemType)
      /\ \A n \in 1..Len(pending') :
           pending'[n].call \in {Head(outq).call, devOpen.call, devCall}
      /\ devOpen'.call \in {Head(outq).call, NoCall}
      /\ devCall' \in {Head(outq).call, devCall, NoCall}
  BY DeviceWhose DEF IInv
<1>2. UNCHANGED <<call, inq>> /\ NoCall.id = 0 /\ call.id # 0
  BY <1>1 DEF DevOnly, host, IInv, Ids, NoCall
<1>3. devOpen'.call.id # call.id /\ devCall'.id # call.id
  BY <1>1, <1>2 DEF Uncome
<1>4. \A n \in 1..Len(pending') : pending'[n].call.id # call.id
  BY <1>1 DEF Uncome
<1>5. /\ Len(Answers') = Len(Answers) + Len(pending')
      /\ \A n \in 1..Len(Answers) : Answers'[n] = Answers[n]
      /\ \A n \in 1..Len(pending') : Answers'[Len(Answers) + n] = pending'[n]
      /\ Len(Answers) \in Nat /\ Len(pending') \in Nat
  BY <1>1, <1>2, AnswersAdded, AnswersFacts, LenProperties, TypeParts DEF IInv
<1>6. \A n \in 1..Len(Answers) : Answers[n].call.id # call.id
  BY <1>5 DEF Uncome, Ahead
<1>7. \A n \in 1..Len(Answers') : Answers'[n].call.id # call.id
  <2>1. ASSUME NEW n \in 1..Len(Answers')
        PROVE  n \in 1..Len(Answers) \/ (n - Len(Answers) \in 1..Len(pending')
                                         /\ n = Len(Answers) + (n - Len(Answers)))
    BY <1>5
  <2> QED BY <1>4, <1>5, <1>6, <2>1
<1>8. Ahead(Answers, 0)'
  <2>1. Len(Answers') >= 0 /\ Len(Answers') - 0 = Len(Answers')
    BY <1>5
  <2> QED BY <1>2, <1>7, <2>1 DEF Ahead
<1> QED BY <1>2, <1>3, <1>7, <1>8 DEF Uncome

(* A new call is of none of the calls before, and sending puts it last.    *)
LEMMA SendQueued ==
  ASSUME IInv, (\E c \in CallsWithId(ncalls + 1) : Invoke(c)) \/ SendRequest \/ SendData
  PROVE  Queued'
<1>0. /\ Pipes /\ Host /\ ncalls \in Nat /\ CurLeg \in LegType
      /\ Hdr \in ItemType /\ Body(call, leg) \in ItemType
  BY TypeParts, CurLegTyped, BoundsAssumption DEF IInv, Counts, Hdr
<1>1. ASSUME NEW c \in CallsWithId(ncalls + 1), Invoke(c)
      PROVE  Queued'
  <2>1. /\ leg' = 1 /\ stage' = "request" /\ got' = 0 /\ call' \in {c, NoCall}
        /\ UNCHANGED <<outq, inq, pending, devOpen, devCall>>
    BY <1>1 DEF Invoke, device, IInv, Idle
  <2>2. c.id = ncalls + 1
    BY DEF CallsWithId
  <2> SUFFICES ASSUME call' = c PROVE QRequest'
    BY <2>1 DEF Queued, Unsure
  <2>3. Answers' = Answers /\ Len(outq) \in Nat /\ Len(Answers) \in Nat
    BY <1>0, <2>1, AnswersFacts, LenProperties DEF Answers, Pipes
  <2>4. /\ \A n \in 1..Len(outq) : outq[n].call.id # ncalls + 1
        /\ \A n \in 1..Len(Answers) : Answers[n].call.id # ncalls + 1
        /\ devOpen.call.id # ncalls + 1 /\ devCall.id # ncalls + 1
    <3>1. ~(ncalls + 1 <= ncalls)
      BY <1>0
    <3> QED BY <3>1 DEF IInv, Ids
  <2>5. Ahead(outq, 0)' /\ Ahead(Answers, 0)'
    <3>1. \A q : q \in {outq, Answers} => Len(q) >= 0 /\ Len(q) - 0 = Len(q)
      BY <2>3
    <3> QED BY <2>1, <2>2, <2>3, <2>4, <3>1 DEF Ahead
  <2> QED BY <2>1, <2>2, <2>4, <2>5 DEF QRequest, Uncome
<1>2. ASSUME SendRequest
      PROVE  Queued'
  <2>1. /\ stage = "request" /\ outq' = Append(outq, Hdr)
        /\ stage' = IF CurLeg.dir = "none" THEN "response" ELSE "data"
        /\ UNCHANGED <<call, leg, got, tainted, foreign, inq, attached, pending, devOpen, devCall>>
    BY <1>2 DEF SendRequest, ghosts, device, Hdr
  <2> SUFFICES ASSUME Unsure PROVE Queued'
    BY <2>1 DEF Queued, Unsure
  <2>2. leg = 1 /\ got = 0 /\ QRequest
    BY <2>1 DEF IInv, Queued, QHeader, QBody, QOpen, QAnswered, QUnheard
  <2>3. /\ Len(outq') >= 0 + 1 /\ outq'[Len(outq')] = Hdr
        /\ \A n \in 1..Len(outq')-(0 + 1) : outq'[n].call.id # call.id
    BY <1>0, <2>1, <2>2, AheadAppend DEF QRequest, Pipes
  <2>4. QHeader'
    BY <2>1, <2>2, <2>3 DEF QRequest, QHeader, Uncome, Ahead, Answers, Hdr, CurLeg
  <2> QED BY <2>1, <2>2, <2>4 DEF Queued
<1>3. ASSUME SendData
      PROVE  Queued'
  <2>1. /\ stage = "data" /\ CurLeg.dir = "write" /\ outq' = Append(outq, Body(call, leg))
        /\ stage' = "response"
        /\ UNCHANGED <<call, leg, got, tainted, foreign, inq, attached, devMode, pending, devOpen,
                       devCall>>
    BY <1>3 DEF SendData, ghosts, device
  <2> SUFFICES ASSUME Unsure PROVE Queued'
    BY <2>1 DEF Queued, Unsure
  <2>2. leg = 1 /\ got = 0 /\ (QHeader \/ QOpen \/ QUnheard)
    BY <2>1 DEF IInv, Queued, QRequest, QBody, QAnswered
  <2>3. outq = <<>> => outq' = <<Body(call, leg)>>
    BY <2>1
  <2>4. CASE QHeader
    <3>1. /\ Len(outq') >= 1 + 1 /\ outq'[Len(outq')] = Body(call, leg)
          /\ \A n \in 1..Len(outq')-(1 + 1) : outq'[n].call.id # call.id
          /\ outq'[Len(outq') - 1] = Hdr
      <4>1. Ahead(outq, 1) /\ outq[Len(outq)] = Hdr
        BY <2>4 DEF QHeader
      <4>2. Len(outq) \in Nat
        BY <1>0, LenProperties DEF Pipes
      <4>3. \A n \in Nat : n >= 1 => n \in 1..n
        OBVIOUS
      <4>4. Len(outq) \in 1..Len(outq)
        BY <4>1, <4>2, <4>3, Zenon DEF Ahead
      <4> QED BY <1>0, <2>1, <4>1, <4>4, AheadAppend DEF Pipes
    <3>2. 1 + 1 = 2
      OBVIOUS
    <3>3. QBody'
      BY <2>1, <2>4, <3>1, <3>2 DEF QHeader, QBody, Uncome, Ahead, Answers, Hdr, CurLeg
    <3> QED BY <2>1, <2>2, <3>3 DEF Queued
  <2>5. CASE QOpen
    <3>1. QOpen'
      BY <2>1, <2>3, <2>5 DEF QOpen, Ahead, Answers, Hdr, CurLeg
    <3> QED BY <2>1, <2>2, <3>1 DEF Queued
  <2>6. CASE QUnheard
    <3>1. QUnheard'
      BY <2>1, <2>3, <2>6 DEF QUnheard, Uncome, Ahead, Answers
    <3> QED BY <2>1, <2>2, <3>1 DEF Queued
  <2> QED BY <2>2, <2>4, <2>5, <2>6
<1> QED BY <1>1, <1>2, <1>3

(* With the first answer the host reads, its own or not, a call is no      *)
(* longer unsure; nor is it when it ends, the device is reset or opened.   *)
LEMMA NotUnsure ==
  ASSUME NullBuffer \/ SendFails \/ RecvFails \/ RecvPart \/ RecvData \/ RecvOverflow
         \/ BadMagic \/ Refused \/ LegDone \/ CallDone \/ Reopen \/ DevReset
  PROVE  Queued'
<1>1. CASE RecvPart \/ RecvData \/ LegDone
  BY <1>1 DEF RecvPart, RecvData, LegDone, Doubt, Take, Queued, Unsure
<1>2. CASE ~(RecvPart \/ RecvData \/ LegDone)
  BY <1>2 DEF NullBuffer, SendFails, RecvFails, RecvOverflow, BadMagic, Refused, CallDone,
       Reopen, DevReset, Return, Queued, Unsure, host
<1> QED BY <1>1, <1>2

(* The call in the queue: its place in the command, and what the device    *)
(* reads off its header and body.                                          *)
LEMMA QueuePlace ==
  ASSUME IInv, Unsure
  PROVE  /\ Pipes /\ Host /\ leg = 1 /\ got = 0 /\ call.op \in AllOps /\ Len(outq) \in Nat
         /\ LegOf(Hdr) = CurLeg /\ Hdr.kind = "header" /\ Hdr.call = OnWire(call)
         /\ Hdr # NoItem /\ OnWire(call).id = call.id
         /\ Body(call, leg).kind = "body" /\ Body(call, leg).call = OnWire(call)
         /\ Body(call, leg).leg = leg /\ Body(call, leg).len = CurLeg.len
         /\ CurLeg.via = "fes" <=> call.op \in FesOps
         /\ CurLeg.via \in {"usb", "fes"} /\ CurLeg.dir \in {"read", "write", "none"}
         /\ call.op \in FesOps => Len(Legs(call)) = 1
         /\ call.op \notin FesOps =>
              CurLeg.dir = "write" /\ OnWire(call) = call /\ 1 < Len(Legs(call))
<1>1. Pipes /\ Host /\ leg = 1 /\ got = 0 /\ call.op \in AllOps /\ call \in CallType
  BY TypeParts DEF IInv, Queued, Unsure, Idle, Host
<1>2. leg \in 1..Len(Legs(call)) /\ Len(Legs(call)) \in 1..3 /\ CurLeg \in LegType
  BY <1>1, LegFacts, CurLegTyped DEF Host
<1>3. /\ CurLeg.via = "fes" <=> call.op \in FesOps
      /\ call.op \in FesOps => Len(Legs(call)) = 1
      /\ call.op \notin FesOps =>
              CurLeg.dir = "write" /\ OnWire(call) = call /\ Len(Legs(call)) >= 2
  BY <1>1, <1>2, LegShape DEF CurLeg
<1> QED BY <1>1, <1>2, <1>3, SentFacts, WireId, LenProperties DEF LegType, Pipes

(* Own items are at the end of the pipe: what the device takes is of an    *)
(* earlier call, or the call's header, or the data of an opened header.    *)
LEMMA QueueHead ==
  ASSUME IInv, Unsure, outq # <<>>, outq' = Tail(outq), DevOnly
  PROVE  \/ /\ Head(outq).call.id # call.id /\ Uncome
            /\ (Uncome' => Queued')
         \/ /\ Head(outq) = Hdr /\ Uncome
            /\ \/ outq' = <<>> /\ stage = IF CurLeg.dir = "none" THEN "response" ELSE "data"
               \/ outq' = <<Body(call, leg)>> /\ stage = "response" /\ CurLeg.dir = "write"
         \/ outq = <<Body(call, leg)>> /\ outq' = <<>> /\ (QOpen \/ QUnheard)
<1>1. /\ UNCHANGED <<call, leg, stage, got, tainted, foreign, attached>>
      /\ Pipes /\ Len(outq) \in Nat /\ Len(outq) >= 1 /\ leg = 1 /\ got = 0
      /\ Head(outq) = outq[1]
  <2>1. outq \in Seq(ItemType)
    BY QueuePlace DEF Pipes
  <2>2. Len(outq) >= 1 /\ Head(outq) = outq[1]
    BY <2>1
  <2> QED BY <2>2, QueuePlace DEF DevOnly, host, ghosts
<1>2. \A k \in Nat : Ahead(outq, k) /\ Len(outq) > k =>
        /\ Head(outq).call.id # call.id
        /\ Len(outq') = Len(outq) - 1 /\ Len(outq') >= k
        /\ \A n \in 1..Len(outq')-k : outq'[n].call.id # call.id
        /\ \A n \in 1..Len(outq)-1 : outq'[n] = outq[n + 1]
  BY <1>1, AheadTail DEF Pipes
<1>3. CASE QRequest
  <2>1. Ahead(outq, 0) /\ Len(outq) > 0 /\ Uncome
    BY <1>1, <1>3 DEF QRequest
  <2>2. Head(outq).call.id # call.id /\ Ahead(outq, 0)'
    BY <1>1, <1>2, <2>1 DEF Ahead
  <2> QED BY <1>1, <1>3, <2>1, <2>2 DEF QRequest, Queued
<1>4. CASE QHeader
  <2>1. Ahead(outq, 1) /\ outq[Len(outq)] = Hdr /\ Uncome
    BY <1>4 DEF QHeader
  <2>2. CASE Len(outq) > 1
    <3>1. Head(outq).call.id # call.id /\ Ahead(outq, 1)' /\ outq'[Len(outq')] = Hdr
      <4>1. Len(outq) - 1 \in 1..Len(outq)-1 /\ (Len(outq) - 1) + 1 = Len(outq)
        BY <1>1, <2>2
      <4> QED BY <1>1, <1>2, <2>1, <2>2, <4>1 DEF Ahead
    <3>2. Uncome' => QHeader'
      BY <1>1, <1>4, <3>1 DEF QHeader, Hdr, CurLeg
    <3> QED BY <1>1, <2>1, <3>1, <3>2 DEF Queued
  <2>3. CASE Len(outq) = 1
    <3>1. outq = <<Hdr>>
      BY <1>1, <2>1, <2>3 DEF Pipes
    <3>2. Head(outq) = Hdr /\ outq' = <<>>
      BY <3>1
    <3> QED BY <1>4, <2>1, <3>2 DEF QHeader
  <2>4. Len(outq) > 1 \/ Len(outq) = 1
    <3>1. \A n \in Nat : n >= 1 => n > 1 \/ n = 1
      OBVIOUS
    <3> QED BY <1>1, <3>1, Zenon
  <2> QED BY <2>2, <2>3, <2>4, Zenon
<1>5. CASE QBody
  <2>1. /\ Ahead(outq, 2) /\ outq[Len(outq)-1] = Hdr /\ outq[Len(outq)] = Body(call, leg)
        /\ Uncome /\ Len(outq) >= 2
    BY <1>5 DEF QBody, Ahead
  <2>2. CASE Len(outq) > 2
    <3>1. /\ Head(outq).call.id # call.id /\ Ahead(outq, 2)'
          /\ outq'[Len(outq')-1] = Hdr /\ outq'[Len(outq')] = Body(call, leg)
      <4>1. /\ Len(outq) - 1 \in 1..Len(outq)-1 /\ (Len(outq) - 1) + 1 = Len(outq)
            /\ Len(outq) - 2 \in 1..Len(outq)-1 /\ (Len(outq) - 2) + 1 = Len(outq) - 1
            /\ (Len(outq) - 1) - 1 = Len(outq) - 2
        BY <1>1, <2>2
      <4>2. /\ Head(outq).call.id # call.id
            /\ Len(outq') = Len(outq) - 1 /\ Len(outq') >= 2
            /\ \A n \in 1..Len(outq')-2 : outq'[n].call.id # call.id
            /\ \A n \in 1..Len(outq)-1 : outq'[n] = outq[n + 1]
        BY <1>2, <2>1, <2>2
      <4> QED BY <1>1, <2>1, <4>1, <4>2 DEF Ahead
    <3>2. Uncome' => QBody'
      BY <1>1, <1>5, <3>1 DEF QBody, Hdr, CurLeg
    <3> QED BY <1>1, <2>1, <3>1, <3>2 DEF Queued
  <2>3. CASE Len(outq) = 2
    <3>1. outq[1] = Hdr /\ outq[2] = Body(call, leg) /\ outq \in Seq(ItemType)
      BY <1>1, <2>1, <2>3 DEF Pipes
    <3>2. Head(outq) = Hdr /\ outq' = <<Body(call, leg)>>
      <4>1. outq = <<Hdr, Body(call, leg)>>
        BY <2>3, <3>1
      <4>2. \A a, b : Tail(<<a, b>>) = <<b>>
        OBVIOUS
      <4> QED BY <1>1, <3>1, <4>1, <4>2, Zenon
    <3> QED BY <1>5, <2>1, <3>2 DEF QBody
  <2>4. Len(outq) > 2 \/ Len(outq) = 2
    <3>1. \A n \in Nat : n >= 2 => n > 2 \/ n = 2
      OBVIOUS
    <3> QED BY <1>1, <2>1, <3>1, Zenon
  <2> QED BY <2>2, <2>3, <2>4, Zenon
<1>6. CASE QOpen \/ QUnheard
  <2>1. outq = <<Body(call, leg)>>
    BY <1>6 DEF QOpen, QUnheard
  <2>2. outq' = <<>>
    BY <2>1
  <2> QED BY <1>6, <2>1, <2>2
<1> QED BY <1>3, <1>4, <1>5, <1>6 DEF IInv, Queued, QAnswered

(* The command was carried out, for FES with a good status.                *)
Done(c) == \E d \in completed : d.call = OnWire(c) /\ (c.op \in FesOps => d.ok)

(* A good answer to the last leg of a call, the first the call reads or    *)
(* any in step, is on its way only once the command has been carried out.  *)
Carried == /\ ~tainted \/ ~foreign
           /\ call # NoCall /\ leg = Len(Legs(call))
           /\ Answers # <<>> /\ Answers[Len(Answers)].call.id = call.id
           /\ Answers[Len(Answers)].ok
           => Done(call)

(* The last of the answers after the device has added to them.             *)
LEMMA LastAdded ==
  ASSUME Pipes, pending = <<>>, UNCHANGED inq, Ahead(Answers, 0),
         NEW r \in ItemType, NEW d \in ItemType,
         pending' = <<r>> \/ pending' = <<d, r>>
  PROVE  /\ Answers'[Len(Answers')] = r
         /\ pending' = <<r>> => /\ Len(Answers') >= 1
                                /\ \A n \in 1..Len(Answers')-1 : Answers'[n].call.id # call.id
         /\ pending' = <<d, r>> =>
              /\ Len(Answers') >= 2 /\ Answers'[Len(Answers')-1] = d
              /\ \A n \in 1..Len(Answers')-2 : Answers'[n].call.id # call.id
<1>1. /\ pending' \in Seq(ItemType)
      /\ pending' = <<r>> => Len(pending') = 1 /\ pending'[1] = r
      /\ pending' = <<d, r>> => Len(pending') = 2 /\ pending'[1] = d /\ pending'[2] = r
  <2>1. /\ <<r>> \in Seq(ItemType) /\ <<d, r>> \in Seq(ItemType)
        /\ Len(<<r>>) = 1 /\ Len(<<d, r>>) = 2
    OBVIOUS
  <2>2. <<r>>[1] = r /\ <<d, r>>[1] = d /\ <<d, r>>[2] = r
    OBVIOUS
  <2> QED BY <2>1, <2>2, Zenon
<1>2. /\ Len(Answers') = Len(Answers) + Len(pending') /\ Len(Answers) \in Nat
      /\ \A n \in 1..Len(Answers) : Answers'[n] = Answers[n]
      /\ \A n \in 1..Len(pending') : Answers'[Len(Answers) + n] = pending'[n]
  BY <1>1, AnswersAdded, AnswersFacts, LenProperties
<1>3. \A n \in 1..Len(Answers) : Answers'[n].call.id # call.id
  BY <1>2 DEF Ahead
<1>4. CASE pending' = <<r>>
  <2>1. /\ Len(Answers') = Len(Answers) + 1 /\ Len(Answers') - 1 = Len(Answers)
        /\ Answers'[Len(Answers) + 1] = r
    BY <1>1, <1>2, <1>4
  <2>2. pending' # <<d, r>>
    BY <1>1, <1>4
  <2> QED BY <1>2, <1>3, <2>1, <2>2
<1>5. CASE pending' = <<d, r>>
  <2>1. /\ Len(Answers') = Len(Answers) + 2 /\ Len(Answers') - 2 = Len(Answers)
        /\ Len(Answers') - 1 = Len(Answers) + 1
        /\ Answers'[Len(Answers) + 1] = d /\ Answers'[Len(Answers) + 2] = r
    BY <1>1, <1>2, <1>5
  <2>2. pending' # <<r>>
    BY <1>1, <1>5
  <2> QED BY <1>2, <1>3, <2>1, <2>2
<1> QED BY <1>4, <1>5

(* Completing a command adds it to what was carried out.                   *)
LEMMA CompletesDone ==
  ASSUME NEW b, Completes(OnWire(call), b), UNCHANGED call, call.op \in FesOps => b
  PROVE  Done(call)'
<1>1. [call |-> OnWire(call), ok |-> b] \in completed'
  BY DEF Completes
<1> QED BY <1>1 DEF Done

(* The device serves a call in the queue or one before it.                 *)
LEMMA DeviceQueued ==
  ASSUME IInv, Unsure, DevStep
  PROVE  Queued' /\ (Carried => Carried')
<1>1. /\ UNCHANGED <<call, leg, stage, got, tainted, foreign, attached, devMode>>
      /\ completed \subseteq completed'
  BY DEF DevStep, DevOpenWrite, DevDrop, DevSend, DevAnswerRead, DevFesCommand, DevTakeBody,
       DevOnly, host, ghosts, Completes
<1>2. CASE DevSend
  <2>1. UNCHANGED <<outq, devOpen, devCall, devLeg, completed>>
    BY <1>2 DEF DevSend
  <2>2. Answers' = Answers
    <3>1. Append(inq, Head(pending)) \o Tail(pending) = Answers
      BY <1>2, AnswersFacts, QueuePlace DEF DevSend
    <3> QED BY <1>2, <3>1 DEF DevSend, Answers
  <2>3. Queued'
    BY <1>1, <2>1, <2>2 DEF IInv, Queued, Unsure, QRequest, QHeader, QBody, QOpen, QAnswered,
         QUnheard, Uncome, Ahead, Hdr, CurLeg, IsData, IsResponse, DeviceAfter
  <2> QED BY <1>1, <2>1, <2>2, <2>3 DEF Carried, Done
<1>3. ASSUME ~DevSend
      PROVE  Queued' /\ (Carried => Carried')
  <2>1. /\ outq # <<>> /\ pending = <<>> /\ outq' = Tail(outq) /\ DevOnly
    BY <1>3, DeviceWhose DEF IInv
  <2>2. CASE Head(outq).call.id # call.id
    <3>1. Uncome /\ (Uncome' => Queued')
      BY <2>1, <2>2, QueueHead, QueuePlace
    <3>2. Uncome' /\ \A n \in 1..Len(Answers') : Answers'[n].call.id # call'.id
      BY <1>3, <2>2, <3>1, StillUncome DEF Unsure
    <3>3. Carried'
      <4>1. Answers' # <<>> => Len(Answers') \in 1..Len(Answers')
        <5>1. Pipes'
          BY DeviceTyped, TypeParts DEF IInv
        <5>2. Answers' \in Seq(ItemType)
          BY <5>1 DEF Answers, Pipes
        <5> QED BY <5>2
      <4> QED BY <3>2, <4>1 DEF Carried
    <3> QED BY <3>1, <3>2, <3>3
  <2>3. CASE /\ Head(outq) = Hdr /\ Uncome
             /\ \/ outq' = <<>> /\ stage = IF CurLeg.dir = "none" THEN "response" ELSE "data"
                \/ outq' = <<Body(call, leg)>> /\ stage = "response" /\ CurLeg.dir = "write"
    <3>1. UNCHANGED inq
      BY <2>1 DEF DevOnly
    <3>2. ~Taking("body")
      BY <2>3, QueuePlace DEF Taking
    <3>3. ASSUME DevOpenWrite PROVE Queued' /\ (Carried => Carried')
      <4>1. /\ CurLeg.dir = "write" /\ (call.op \in FesOps => devMode = "SRV")
            /\ devOpen' = Hdr /\ UNCHANGED <<pending, devCall, completed>>
        BY <2>3, <3>3, QueuePlace DEF DevOpenWrite
      <4>2. QOpen'
        BY <1>1, <2>3, <3>1, <4>1 DEF QOpen, Uncome, Ahead, Answers, Hdr, CurLeg
      <4> QED BY <1>1, <3>1, <4>1, <4>2, QueuePlace DEF Queued, Carried, Answers, Done
    <3>4. ASSUME DevDrop PROVE Queued' /\ (Carried => Carried')
      <4>1. /\ call.op \in FesOps /\ devMode # "SRV"
            /\ devOpen' = NoItem /\ UNCHANGED <<pending, devCall, completed>>
        BY <2>3, <3>2, <3>4, QueuePlace DEF DevDrop
      <4>2. QUnheard'
        <5>1. call.id # 0 /\ NoItem.call.id = 0
          BY DEF IInv, Ids, Unsure, NoItem, Item, NoCall
        <5> QED BY <1>1, <2>3, <3>1, <4>1, <5>1 DEF QUnheard, Uncome, Ahead, Answers
      <4> QED BY <1>1, <3>1, <4>1, <4>2, QueuePlace DEF Queued, Carried, Answers, Done
    <3>5. ASSUME NEW ok \in BOOLEAN, DevFesCommand(ok) PROVE Queued' /\ Carried'
      <4> DEFINE r == Response(OnWire(call), ok)
                 d == Data(CurLeg.len, OnWire(call), ok, "NULL")
      <4>1. /\ call.op \in FesOps /\ CurLeg.dir # "write" /\ devMode = "SRV"
            /\ devOpen' = NoItem /\ devCall' = NoCall /\ Completes(OnWire(call), ok)
            /\ pending' = IF CurLeg.dir = "read" THEN <<d, r>> ELSE <<r>>
        BY <2>3, <3>5, QueuePlace DEF DevFesCommand
      <4>2. /\ r \in ItemType /\ d \in ItemType
            /\ r.kind = "response" /\ r.len = ResponseSize /\ r.call = OnWire(call) /\ r.ok = ok
            /\ d.kind = "body" /\ d.len = CurLeg.len /\ d.call = OnWire(call)
        <5>1. OnWire(call) \in CallType /\ CurLeg.len \in Nat
          BY QueuePlace, CurLegTyped, LegFacts DEF Host, LegType
        <5> QED BY <5>1, ItemsTyped, AnswerItems DEF Modes
      <4> HIDE DEF r, d
      <4>3. /\ Answers'[Len(Answers')] = r
            /\ CurLeg.dir = "read" => Answers'[Len(Answers')-1] = d /\ Ahead(Answers, 2)'
            /\ CurLeg.dir # "read" => Ahead(Answers, 1)'
        <5>1. Ahead(Answers, 0) /\ Pipes
          BY <2>3, QueuePlace DEF Uncome
        <5> QED BY <1>1, <2>1, <3>1, <4>1, <4>2, <5>1, LastAdded DEF Ahead
      <4>4. QAnswered'
        <5>1. ~(leg < Len(Legs(call)))
          <6>1. leg = 1 /\ Len(Legs(call)) = 1
            BY <4>1, QueuePlace, Zenon
          <6> QED BY <6>1
        <5>2. outq' = <<>> /\ stage = IF CurLeg.dir = "none" THEN "response" ELSE "data"
          BY <2>3, <4>1
        <5> QED BY <1>1, <4>1, <4>2, <4>3, <5>1, <5>2, QueuePlace
                DEF QAnswered, IsResponse, IsData, DeviceAfter, CurLeg
      <4>5. Carried'
        <5>1. ok => Done(call)'
          BY <1>1, <4>1, CompletesDone
        <5> QED BY <1>1, <4>2, <4>3, <5>1 DEF Carried, Done
      <4> QED BY <1>1, <4>4, <4>5, QueuePlace DEF Queued
    <3>6. ASSUME NEW ok \in BOOLEAN, NEW st \in BOOLEAN, DevAnswerRead(ok, st) PROVE FALSE
      BY <2>3, <3>6, QueuePlace DEF DevAnswerRead
    <3> QED BY <1>3, <3>2, <3>3, <3>4, <3>5, <3>6 DEF DevStep, DevTakeBody
  <2>4. CASE outq = <<Body(call, leg)>> /\ outq' = <<>> /\ (QOpen \/ QUnheard)
    <3>1. UNCHANGED inq /\ Head(outq) = Body(call, leg)
      BY <2>1, <2>4 DEF DevOnly
    <3>2. ~Taking("header")
      BY <3>1, QueuePlace DEF Taking
    <3>3. CASE QOpen
      <4>1. CurLeg.dir = "write" /\ stage = "response" /\ devOpen = Hdr /\ Ahead(Answers, 0)
            /\ (call.op \in FesOps => devMode = "SRV")
        BY <2>4, <3>3 DEF QOpen
      <4>2. ~DevDrop
        BY <3>1, <3>2, <4>1, QueuePlace DEF DevDrop
      <4>3. ASSUME NEW ok \in BOOLEAN, DevTakeBody(ok) PROVE Queued' /\ Carried'
        <5> DEFINE r == Response(OnWire(call), ok)
        <5>1. /\ pending' = <<r>> /\ devOpen' = NoItem
              /\ call.op \in FesOps => Completes(OnWire(call), ok) /\ devCall' = NoCall
              /\ call.op \notin FesOps => /\ devCall' = IF ok THEN call ELSE NoCall
                                          /\ devLeg' = IF ok THEN 2 ELSE 1
          BY <3>1, <4>1, <4>3, QueuePlace DEF DevTakeBody
        <5>2. /\ r \in ItemType
              /\ r.kind = "response" /\ r.len = ResponseSize /\ r.call = OnWire(call) /\ r.ok = ok
          <6>1. OnWire(call) \in CallType
            BY QueuePlace, LegFacts DEF Host
          <6> QED BY <6>1, ItemsTyped, AnswerItems
        <5> HIDE DEF r
        <5>3. Answers'[Len(Answers')] = r /\ Ahead(Answers, 1)'
          <6>1. Pipes
            BY QueuePlace
          <6> QED BY <1>1, <2>1, <3>1, <4>1, <5>1, <5>2, <6>1, LastAdded DEF Ahead
        <5>4. QAnswered'
          <6>1. DeviceAfter(Answers[Len(Answers)].ok)'
            <7>1. leg + 1 = 2 /\ (call.op \in FesOps <=> ~(leg < Len(Legs(call))))
              <8>1. /\ leg = 1
                    /\ call.op \in FesOps => Len(Legs(call)) = 1
                    /\ call.op \notin FesOps => 1 < Len(Legs(call))
                BY QueuePlace, Zenon
              <8>2. ~(1 < 1) /\ 1 + 1 = 2
                OBVIOUS
              <8> QED BY <8>1, <8>2, Zenon
            <7>2. Answers'[Len(Answers')].ok = ok
              BY <5>2, <5>3
            <7> QED BY <1>1, <5>1, <7>1, <7>2 DEF DeviceAfter
          <6> QED BY <1>1, <2>4, <4>1, <5>1, <5>2, <5>3, <6>1
                  DEF QAnswered, IsResponse, CurLeg
        <5>5. Carried'
          <6>1. CASE call.op \in FesOps
            <7>1. ok => Done(call)'
              BY <1>1, <5>1, <6>1, CompletesDone
            <7> QED BY <1>1, <5>2, <5>3, <7>1 DEF Carried, Done
          <6>2. CASE call.op \notin FesOps
            <7>1. leg # Len(Legs(call))
              <8>1. leg = 1 /\ 1 < Len(Legs(call))
                BY <6>2, QueuePlace, Zenon
              <8>2. ~(1 < 1)
                OBVIOUS
              <8> QED BY <8>1, <8>2, Zenon
            <7> QED BY <1>1, <7>1 DEF Carried
          <6> QED BY <6>1, <6>2
        <5> QED BY <1>1, <5>4, <5>5, QueuePlace DEF Queued
      <4> QED BY <1>3, <3>2, <4>2, <4>3
              DEF DevStep, DevOpenWrite, DevFesCommand, DevAnswerRead
    <3>4. CASE QUnheard
      <4>1. /\ devOpen = NoItem /\ stage = "response" /\ Uncome
            /\ call.op \in FesOps /\ devMode # "SRV"
        BY <2>4, <3>4 DEF QUnheard
      <4>2. DevDrop
        BY <1>3, <3>2, <4>1
           DEF DevStep, DevOpenWrite, DevFesCommand, DevAnswerRead, DevTakeBody
      <4>3. devOpen' = NoItem /\ UNCHANGED <<pending, devCall, completed>>
        BY <4>2 DEF DevDrop
      <4>4. QUnheard'
        BY <1>1, <2>4, <3>1, <4>1, <4>3 DEF QUnheard, Uncome, Ahead, Answers
      <4> QED BY <1>1, <3>1, <4>3, <4>4, QueuePlace DEF Queued, Carried, Answers, Done
    <3> QED BY <2>4, <3>3, <3>4
  <2> QED BY <2>1, <2>2, <2>3, <2>4, QueueHead
<1> QED BY <1>2, <1>3

(* Every step leaves a call in the queue in its place.                     *)
LEMMA QueuedKept ==
  ASSUME IInv, [Next]_vars
  PROVE  Queued'
<1>1. CASE UNCHANGED vars
  <2>1. /\ UNCHANGED <<call, leg, stage, got, tainted, foreign, attached, devMode>>
        /\ UNCHANGED <<outq, inq, pending, devOpen, devCall, devLeg>>
    BY <1>1 DEF vars, host, ghosts, device
  <2>2. Answers' = Answers /\ Hdr' = Hdr /\ CurLeg' = CurLeg /\ Uncome' = Uncome
    BY <2>1 DEF Answers, Hdr, CurLeg, Uncome, Ahead
  <2>3. /\ QRequest => QRequest'
        /\ QHeader => QHeader'
        /\ QBody => QBody'
        /\ QOpen => QOpen'
        /\ QUnheard => QUnheard'
    BY <2>1, <2>2 DEF QRequest, QHeader, QBody, QOpen, QUnheard, Ahead
  <2>4. QAnswered => QAnswered'
    BY <2>1, <2>2 DEF QAnswered, Ahead, IsData, IsResponse, DeviceAfter
  <2> QED BY <2>1, <2>3, <2>4 DEF IInv, Queued, Unsure
<1>2. ASSUME DevStep, ~Unsure
      PROVE  Queued'
  <2>1. UNCHANGED <<call, tainted, foreign, attached>>
    BY <1>2 DEF DevStep, DevOpenWrite, DevDrop, DevSend, DevAnswerRead, DevFesCommand, DevTakeBody,
         DevOnly, host, ghosts
  <2> QED BY <1>2, <2>1 DEF Queued, Unsure
<1> QED BY <1>1, <1>2, SendQueued, NotUnsure, DeviceQueued DEF Next, HostStep, Finished

(* The strengthened invariant is inductive.                                *)
LEMMA StepInStep ==
  IInv /\ [Next]_vars => IInv'
<1> SUFFICES ASSUME IInv, [Next]_vars PROVE IInv'
  OBVIOUS
<1>1. TypeOK'
  BY StepTyped DEF IInv
<1>2. ASSUME UNCHANGED vars
      PROVE  InStep' /\ Idle' /\ Silent' /\ Deaf'
  BY <1>2 DEF vars, host, ghosts, device, IInv, InStep, Synced, CurLeg, Before, HeaderSent,
       Collecting, DataSent, Answered, IsResponse, IsData, DeviceAfter, DeviceAt, Hdr, Answers,
       Idle, Silent, Deaf
<1>3. InStep' /\ Idle' /\ Silent' /\ Deaf'
  BY <1>2, FaultInStep, SendInStep, ReceiveInStep, DeviceInStep DEF Next, HostStep, Finished
<1> QED BY <1>1, <1>3, IdsKept, QueuedKept DEF IInv

(* It holds at the start: nothing is in the pipes and no call is under way. *)
LEMMA InitInStep ==
  Init => IInv
<1> SUFFICES ASSUME Init PROVE IInv
  OBVIOUS
<1>1. TypeOK
  BY InitTyped
<1>2. Answers = <<>> /\ NoCall.op \notin FesOps
  BY DEF Init, Answers, NoCall, FesOps
<1>3. Ids
  <2>1. NoCall.id = 0 /\ NoItem.call = NoCall /\ 0 <= 0
    BY DEF NoCall, NoItem, Item
  <2> QED BY <1>2, <2>1 DEF Init, Ids
<1> QED BY <1>1, <1>2, <1>3
        DEF Init, IInv, InStep, Before, DeviceAt, Idle, Silent, Deaf, Queued, Unsure

(* Until a transfer fails, and again from the first answer on that a later *)
(* call reads as its own, host and device stand at the same place of the   *)
(* same call, for any number of calls, faults, resets and refusals and any *)
(* lengths and arguments: a refused command leaves nothing in the pipes.   *)
THEOREM InStepHolds == Spec => []InStep
<1>1. IInv => InStep
  BY DEF IInv
<1> QED BY <1>1, InitInStep, StepInStep, PTL DEF Spec

(* A call that has just succeeded on its own answers left the pipes empty. *)
LEMMA ResyncedKept ==
  ASSUME IInv, IInv', Resynced, [Next]_vars
  PROVE  Resynced'
<1>1. ASSUME NEW c \in CallsWithId(ncalls + 1), Invoke(c)
      PROVE  Resynced'
  <2>1. c # NoCall
    <3>1. c.id = ncalls + 1 /\ NoCall.id = 0 /\ ncalls \in Nat
      BY TypeParts, BoundsAssumption DEF CallsWithId, NoCall, IInv, Counts
    <3> QED BY <3>1
  <2>2. call' = c \/ ret'.code # "SUCCESS"
    BY <1>1 DEF Invoke, Record
  <2> QED BY <2>1, <2>2 DEF Resynced, Succeeded
<1>2. CASE SendRequest \/ SendData \/ RecvPart \/ RecvData \/ LegDone
  <2>1. call' = call /\ call # NoCall
    BY <1>2 DEF SendRequest, SendData, RecvPart, RecvData, LegDone, RecvResponse, Receiving
  <2> QED BY <2>1 DEF Resynced
<1>3. CASE NullBuffer \/ SendFails \/ RecvFails \/ BadMagic \/ RecvOverflow \/ Refused
  <2>1. PICK code \in {"NULL_PTR", "USB_TRANSFER", "USB_TIMEOUT", "INVALID_RESPONSE", "PROTOCOL"} :
             \E f, t : Return(code, f, t)
    BY <1>3 DEF NullBuffer, SendFails, RecvFails, BadMagic, RecvOverflow, Refused, Mapped
  <2>2. ret'.code = code
    BY <2>1 DEF Return, Record
  <2>3. code # "SUCCESS"
    OBVIOUS
  <2> QED BY <2>2, <2>3 DEF Resynced, Succeeded
<1>4. CASE CallDone
  <2> SUFFICES ASSUME ~ret'.foreign
               PROVE  outq' = <<>> /\ Answers' = <<>> /\ devOpen' = NoItem /\ devCall' = NoCall
    BY DEF Resynced
  <2>1. /\ Return("SUCCESS", Take, Doubt) /\ call' = NoCall /\ leg' = 1 /\ tainted' = Doubt
        /\ ret'.foreign = Take
    BY <1>4 DEF CallDone, Return, Record
  <2>2. ~tainted'
    BY <2>1 DEF Doubt
  <2>3. NoCall.op \notin FesOps
    BY DEF NoCall, FesOps
  <2>4. Before'
    BY <2>1, <2>2, <2>3 DEF IInv, InStep, Synced
  <2> QED BY <2>1, <2>4 DEF Before, DeviceAt
<1>5. CASE Reopen
  BY <1>5 DEF Reopen, host, Resynced, Succeeded, Answers
<1>6. CASE DevReset
  BY <1>6 DEF DevReset, Resynced, Answers
<1>7. CASE DevStep
  <2>1. outq # <<>> \/ pending # <<>>
    BY <1>7 DEF DevStep, DevOpenWrite, DevDrop, DevSend, DevAnswerRead, DevFesCommand, DevTakeBody,
         Taking
  <2>2. Answers = <<>> => pending = <<>>
    BY AnswersFacts, TypeParts DEF IInv
  <2>3. UNCHANGED <<call, ret>>
    BY <1>7 DEF DevStep, DevOpenWrite, DevDrop, DevSend, DevAnswerRead, DevFesCommand, DevTakeBody,
         DevOnly, host
  <2> QED BY <2>1, <2>2, <2>3 DEF Resynced, Succeeded
<1>8. CASE UNCHANGED vars
  BY <1>8 DEF vars, host, device, Resynced, Succeeded, Answers
<1> QED BY <1>1, <1>2, <1>3, <1>4, <1>5, <1>6, <1>7, <1>8 DEF Next, HostStep, Finished

(* A call that returns SUCCESS having read only its own answers leaves the *)
(* pipes empty and the device idle, whatever failed, was lost or came late *)
(* before it, in any number of calls: one such call gets host and device   *)
(* back in step.                                                           *)
THEOREM OwnSuccessResyncs == Spec => []Resynced
<1>1. Init => Resynced
  BY DEF Init, Record, Resynced, Succeeded
<1>2. IInv /\ Resynced /\ [Next]_vars => Resynced'
  BY StepInStep, ResyncedKept
<1> QED BY <1>1, <1>2, InitInStep, StepInStep, PTL DEF Spec

(***************************************************************************)
(* What a returning call means: success is the device's success, and the   *)
(* stored mode is the device's mode.  Both build on the host and the       *)
(* device standing at the same place.                                      *)
(***************************************************************************)

(***************************************************************************)
(* The strengthening: queries carry no argument; a call in step consumes   *)
(* only its own answers; a good answer to the last leg is on its way only  *)
(* once the command has been carried out; init's mode is on its way, or    *)
(* stored.                                                                 *)
(***************************************************************************)
NoArgument == call.op = "fes_query" => call.arg = ZeroArg
Own == ~tainted \/ call = NoCall => ~foreign
ModeStored ==
  ~tainted /\ call.op = "init" =>
    /\ leg = 3 \/ (leg = 2 /\ stage = "response") => mode = devMode
    /\ leg = 2 /\ stage = "data" /\ Answers # <<>> => Answers[1].mode = devMode
JInv == IInv /\ NoArgument /\ Own /\ Carried /\ ModeStored /\ ModeIsCurrent /\ HonestSuccess

(* The steps after which a transfer has failed promise nothing.            *)
LEMMA FaultKeeps ==
  ASSUME JInv, NullBuffer \/ SendFails \/ RecvFails \/ BadMagic \/ RecvOverflow \/ DevReset
  PROVE  NoArgument' /\ Own' /\ Carried' /\ ModeStored' /\ HonestSuccess'
<1>1. CASE DevReset
  <2>1. /\ tainted' = TRUE /\ Answers' = <<>>
        /\ UNCHANGED <<call, leg, stage, ret, foreign, completed>>
    BY <1>1 DEF DevReset, host, Answers
  <2>2. NoArgument' /\ Carried' /\ ModeStored'
    BY <2>1 DEF JInv, NoArgument, Carried, ModeStored
  <2> QED BY <2>1, <2>2 DEF JInv, Own, HonestSuccess, Succeeded
<1>2. CASE NullBuffer \/ SendFails \/ RecvFails \/ BadMagic \/ RecvOverflow
  <2>1. PICK code, f : Return(code, f, TRUE)
    BY <1>2 DEF NullBuffer, SendFails, RecvFails, BadMagic, RecvOverflow
  <2>2. NoCall.op = "none"
    BY DEF NoCall
  <2> QED BY <2>1, <2>2 DEF Return, Record, NoArgument, Own, Carried, ModeStored, HonestSuccess
<1> QED BY <1>1, <1>2

(* A new call, a new open, and the steps that send.                        *)
LEMMA SendKeeps ==
  ASSUME JInv, (\E c \in CallsWithId(ncalls + 1) : Invoke(c)) \/ Reopen
               \/ SendRequest \/ SendData
  PROVE  NoArgument' /\ Own' /\ Carried' /\ ModeStored' /\ HonestSuccess'
<1> USE DEF JInv
<1>1. ASSUME NEW c \in CallsWithId(ncalls + 1), Invoke(c)
      PROVE  NoArgument' /\ Own' /\ Carried' /\ ModeStored' /\ HonestSuccess'
  <2>1. /\ call = NoCall /\ leg = 1 /\ call' \in {c, NoCall}
        /\ UNCHANGED <<leg, stage, mode, tainted, foreign, inited, inq, pending, devMode,
                       completed>>
        /\ ret' = ret \/ ret'.code # "SUCCESS"
    BY <1>1 DEF Invoke, device, IInv, Idle, Record
  <2>2. c.op = "fes_query" => c.arg = ZeroArg
    BY DEF CallsWithId
  <2>3. NoArgument'
    BY <2>1, <2>2 DEF NoArgument
  <2>4. Own'
    BY <2>1 DEF Own
  <2>5. Answers' = Answers /\ \A n \in 1..Len(Answers) : Answers[n].call.id # c.id
    <3>1. c.id = ncalls + 1 /\ ncalls \in Nat
      BY TypeParts, BoundsAssumption DEF IInv, CallsWithId, Counts
    <3>2. ~(ncalls + 1 <= ncalls)
      BY <3>1
    <3> QED BY <2>1, <3>1, <3>2 DEF IInv, Ids, Answers
  <2>6. Carried'
    <3>1. Answers # <<>> => Len(Answers) \in 1..Len(Answers)
      <4>1. Answers \in Seq(ItemType)
        BY AnswersFacts, TypeParts DEF IInv
      <4> QED BY <4>1
    <3> QED BY <2>1, <2>5, <3>1 DEF Carried
  <2>7. ModeStored'
    BY <2>1 DEF ModeStored
  <2>8. HonestSuccess'
    BY <2>1 DEF HonestSuccess, Succeeded
  <2> QED BY <2>3, <2>4, <2>6, <2>7, <2>8
<1>2. CASE Reopen
  <2>1. /\ call = NoCall /\ call' = NoCall /\ inited' = FALSE
        /\ UNCHANGED <<foreign, ret, completed>>
    BY <1>2 DEF Reopen, host
  <2>2. NoCall.op = "none"
    BY DEF NoCall
  <2> QED BY <2>1, <2>2
          DEF NoArgument, Own, Carried, ModeStored, HonestSuccess, Succeeded
<1>3. CASE SendRequest \/ SendData
  <2>1. /\ call # NoCall /\ stage \in {"request", "data"}
        /\ UNCHANGED <<call, leg, mode, ret, tainted, foreign, inited, inq, pending, devMode,
                       completed>>
    BY <1>3 DEF SendRequest, SendData, ghosts, device
  <2>2. Answers' = Answers
    BY <2>1 DEF Answers
  <2>3. NoArgument' /\ Own' /\ Carried' /\ HonestSuccess'
    BY <2>1, <2>2 DEF NoArgument, Own, Carried, Done, HonestSuccess, Succeeded
  <2>4. ModeStored'
    <3> SUFFICES ASSUME ~tainted, call.op = "init" PROVE ModeStored'
      BY <2>1 DEF ModeStored
    <3>1. Synced
      BY DEF Synced, FesOps
    <3>2. leg = 2 => CurLeg.dir = "read"
      BY DEF CurLeg, Legs, EfexInit, UsbRead, Leg
    <3>3. CASE SendRequest
      <4>1. stage = "request" /\ (leg = 2 => stage' = "data")
        BY <3>2, <3>3 DEF SendRequest
      <4>2. Answers = <<>>
        BY <2>1, <3>1, <4>1 DEF IInv, InStep, Before
      <4> QED BY <2>1, <2>2, <4>1, <4>2 DEF ModeStored
    <3>4. CASE SendData
      <4>1. leg # 2
        BY <3>2, <3>4 DEF SendData
      <4> QED BY <2>1, <2>2, <4>1 DEF ModeStored
    <3> QED BY <1>3, <3>3, <3>4
  <2> QED BY <2>3, <2>4
<1> QED BY <1>1, <1>2, <1>3

(* What a host in step, or one that reads something of its own first,      *)
(* takes from its pipe: something of this call, after which the other      *)
(* answers follow.                                                         *)
LEMMA OwnAnswer ==
  ASSUME JInv, ~Doubt, Receiving, inq # <<>>, inq' = Tail(inq), UNCHANGED pending
  PROVE  /\ call # NoCall /\ got = 0 /\ Take = FALSE /\ ~foreign /\ (tainted => leg = 1)
         /\ Head(inq) = Answers[1] /\ Answers # <<>>
         /\ Len(Answers') = Len(Answers) - 1
         /\ \A i \in 1..Len(Answers)-1 : Answers'[i] = Answers[i + 1]
         /\ Answers' \in Seq(ItemType)
         /\ Answers[Len(Answers)].call.id = call.id
         /\ \/ stage = "data" /\ CurLeg.dir = "read" /\ Len(Answers) = 2 /\ IsData(Head(inq))
            \/ stage = "response" /\ Len(Answers) = 1 /\ IsResponse(Head(inq))
<1>1. /\ call # NoCall /\ got = 0 /\ Head(inq) = Answers[1]
      /\ \/ stage = "data" /\ CurLeg.dir = "read" /\ Answered(2) /\ IsData(Answers[1])
         \/ stage = "response" /\ Answered(1)
  BY Awaited DEF JInv
<1>2. /\ Answers # <<>> /\ Len(Answers') = Len(Answers) - 1
      /\ \A i \in 1..Len(Answers)-1 : Answers'[i] = Answers[i + 1]
      /\ Answers' \in Seq(ItemType)
  <2>1. Answers' = Tail(inq) \o pending
    BY DEF Answers
  <2> QED BY <2>1, AnswersFacts, TypeParts DEF JInv, IInv
<1>3. \/ stage = "data" /\ CurLeg.dir = "read" /\ Len(Answers) = 2 /\ IsData(Head(inq))
      \/ stage = "response" /\ Len(Answers) = 1 /\ IsResponse(Head(inq))
  BY <1>1 DEF Answered
<1>4. OnWire(call).id = call.id
  BY WireId, TypeParts DEF JInv, IInv, Host
<1>5. Head(inq).call.id = call.id /\ Answers[Len(Answers)].call.id = call.id
  BY <1>1, <1>3, <1>4 DEF Answered, IsData, IsResponse
<1>6. Take = FALSE /\ ~foreign
  BY <1>5 DEF JInv, Own, Doubt, Take
<1>7. tainted => leg = 1
  BY <1>6, OwnHead DEF JInv
<1> QED BY <1>1, <1>2, <1>3, <1>5, <1>6, <1>7

(* What was put on the wire is the call itself, unless it is a switch,     *)
(* whose argument does not fit.                                            *)
LEMMA WireFaithful ==
  ASSUME NEW c \in CallType, c.op # "fes_switch", c.op = "fes_query" => c.arg = ZeroArg
  PROVE  OnWire(c) = c
<1>1. CASE c.op = "fes_query"
  BY <1>1 DEF OnWire, CallType
<1>2. CASE c.op # "fes_query"
  BY <1>2 DEF OnWire, FesRequestLen, FesBufSize
<1> QED BY <1>1, <1>2

(* The steps that receive what they wait for, or less.                     *)
LEMMA ReceiveKeeps ==
  ASSUME JInv, RecvPart \/ RecvData \/ Refused \/ LegDone \/ CallDone
  PROVE  NoArgument' /\ Own' /\ Carried' /\ ModeStored' /\ HonestSuccess'
<1>1. /\ Receiving /\ call # NoCall /\ inq # <<>> /\ inq' = Tail(inq)
      /\ UNCHANGED <<pending, devMode, completed>>
  BY DEF RecvPart, RecvData, Refused, LegDone, CallDone, RecvResponse, Receiving, device
<1>2. ~Doubt =>
         /\ Take = FALSE /\ ~foreign /\ (tainted => leg = 1)
         /\ Head(inq) = Answers[1] /\ Answers # <<>>
         /\ Len(Answers') = Len(Answers) - 1
         /\ \A i \in 1..Len(Answers)-1 : Answers'[i] = Answers[i + 1]
         /\ Answers' \in Seq(ItemType)
         /\ Answers[Len(Answers)].call.id = call.id
         /\ \/ stage = "data" /\ CurLeg.dir = "read" /\ Len(Answers) = 2 /\ IsData(Head(inq))
            \/ stage = "response" /\ Len(Answers) = 1 /\ IsResponse(Head(inq))
  BY <1>1, OwnAnswer
<1>3. NoCall.op = "none" /\ Doubt \in BOOLEAN /\ Take \in BOOLEAN /\ (Doubt => Take)
  BY TypeParts DEF NoCall, JInv, IInv, Host, Doubt, Take
<1>4. ASSUME RecvPart
      PROVE  NoArgument' /\ Own' /\ Carried' /\ ModeStored' /\ HonestSuccess'
  <2>1. /\ Head(inq).len < Need /\ tainted' = Doubt /\ foreign' = Take
        /\ UNCHANGED <<call, ret, completed>>
    BY <1>4 DEF RecvPart, device
  <2>2. Doubt
    <3>1. Need \in Int
      BY CurLegTyped, TypeParts DEF JInv, IInv, LegType, Need, ResponseSize, Host
    <3>2. ~Doubt => Head(inq).len = Need
      BY <1>1, Awaited DEF JInv
    <3> QED BY <2>1, <3>1, <3>2
  <2> QED BY <1>1, <1>3, <2>1, <2>2
          DEF JInv, NoArgument, Own, Carried, ModeStored, HonestSuccess, Succeeded
<1>5. ASSUME RecvData
      PROVE  NoArgument' /\ Own' /\ Carried' /\ ModeStored' /\ HonestSuccess'
  <2>1. /\ stage = "data" /\ stage' = "response" /\ foreign' = Take /\ tainted' = Doubt
        /\ StoreMode(Head(inq)) /\ UNCHANGED <<call, leg, ret>>
    BY <1>5 DEF RecvData
  <2>2. NoArgument' /\ Own' /\ HonestSuccess'
    BY <1>1, <1>2, <2>1 DEF JInv, NoArgument, Own, HonestSuccess, Succeeded
  <2>3. Carried'
    <3> SUFFICES ASSUME ~Doubt PROVE Carried'
      BY <1>3, <2>1 DEF Carried
    <3>1. /\ Len(Answers) = 2 /\ Len(Answers') = Len(Answers) - 1
          /\ \A i \in 1..Len(Answers)-1 : Answers'[i] = Answers[i + 1]
      BY <1>2, <2>1, Zenon
    <3>2. Len(Answers') = 1 /\ Answers'[1] = Answers[2]
      BY <3>1
    <3> QED BY <1>1, <1>2, <2>1, <3>1, <3>2 DEF JInv, Carried, Done
  <2>4. ModeStored'
    <3> SUFFICES ASSUME ~Doubt, call.op = "init" PROVE ModeStored'
      BY <2>1 DEF ModeStored
    <3>1. CASE leg = 2
      <4>1. CurLeg.len = DeviceRespSize
        BY <3>1 DEF CurLeg, Legs, EfexInit, UsbRead, Leg
      <4>2. Head(inq).mode = devMode
        <5>1. ~tainted
          BY <1>2, <3>1
        <5> QED BY <1>2, <2>1, <3>1, <5>1 DEF JInv, ModeStored
      <4>3. devMode # "NULL"
        BY TypeParts DEF JInv, IInv, Device, DeviceModes
      <4>4. got = 0 /\ IsData(Head(inq))
        BY <1>1, <1>2, <2>1, OwnAnswer
      <4>5. mode' = devMode
        BY <2>1, <3>1, <4>1, <4>2, <4>3, <4>4 DEF StoreMode, IsData
      <4> QED BY <1>1, <2>1, <3>1, <4>5 DEF ModeStored
    <3>2. CASE leg # 2
      <4>1. mode' = mode
        BY <2>1, <3>2 DEF StoreMode
      <4>2. leg = 3 => ~tainted
        BY <1>2
      <4> QED BY <1>1, <2>1, <3>2, <4>1, <4>2 DEF JInv, ModeStored
    <3> QED BY <3>1, <3>2
  <2> QED BY <2>2, <2>3, <2>4
<1>6. ASSUME Refused
      PROVE  NoArgument' /\ Own' /\ Carried' /\ ModeStored' /\ HonestSuccess'
  <2>1. /\ Return(Mapped("PROTOCOL"), Take, Doubt) /\ Mapped("PROTOCOL") # "SUCCESS"
    BY <1>6 DEF Refused, Mapped
  <2> QED BY <1>3, <2>1
          DEF Return, Record, NoArgument, Own, Carried, ModeStored, HonestSuccess, Succeeded
<1>7. ASSUME LegDone
      PROVE  NoArgument' /\ Own' /\ Carried' /\ ModeStored' /\ HonestSuccess'
  <2>1. /\ stage = "response" /\ leg' = leg + 1 /\ stage' = "request" /\ foreign' = Take
        /\ tainted' = Doubt /\ UNCHANGED <<call, ret, mode>>
    BY <1>7 DEF LegDone, RecvResponse
  <2>2. NoArgument' /\ Own' /\ HonestSuccess'
    BY <1>1, <1>2, <2>1 DEF JInv, NoArgument, Own, HonestSuccess, Succeeded
  <2>3. Carried'
    <3> SUFFICES ASSUME ~Doubt PROVE Carried'
      BY <1>3, <2>1 DEF Carried
    <3>1. Len(Answers) = 1 /\ Len(Answers') = Len(Answers) - 1 /\ Answers' \in Seq(ItemType)
      BY <1>2, <2>1
    <3>2. Answers' = <<>>
      BY <3>1, EmptySeq
    <3> QED BY <3>2 DEF Carried
  <2>4. ModeStored'
    <3> SUFFICES ASSUME ~Doubt, leg' = 3 PROVE (call.op = "init" => mode = devMode)
      BY <1>1, <2>1 DEF ModeStored
    <3>1. leg \in Int
      BY LegFacts, TypeParts DEF JInv, IInv, Host
    <3>2. leg = 2
      BY <2>1, <3>1
    <3>3. ~tainted
      BY <1>2, <3>2
    <3> QED BY <2>1, <3>2, <3>3 DEF JInv, ModeStored
  <2> QED BY <2>2, <2>3, <2>4
<1>8. ASSUME CallDone
      PROVE  NoArgument' /\ Own' /\ Carried' /\ ModeStored' /\ HonestSuccess'
  <2>1. /\ stage = "response" /\ Head(inq).ok = TRUE /\ leg = Len(Legs(call))
        /\ Return("SUCCESS", Take, Doubt)
    BY <1>8 DEF CallDone, RecvResponse, LastLeg
  <2>2. NoArgument' /\ Own' /\ Carried' /\ ModeStored'
    BY <1>3, <2>1 DEF Return, NoArgument, Own, Carried, ModeStored
  <2>3. HonestSuccess'
    <3> SUFFICES ASSUME ~Doubt PROVE HonestSuccess'
      BY <2>1 DEF Return, Record, HonestSuccess
    <3>1. Done(call)
      <4>1. Len(Answers) = 1 /\ Answers[1].ok
        BY <1>2, <2>1
      <4> QED BY <1>1, <1>2, <2>1, <4>1 DEF JInv, Carried
    <3>2. call.op # "fes_switch" => OnWire(call) = call
      BY WireFaithful, TypeParts DEF JInv, IInv, Host, NoArgument
    <3>3. ret'.foreign = FALSE /\ ret'.call = call
      BY <1>2, <2>1 DEF Return, Record
    <3> QED BY <1>1, <3>1, <3>2, <3>3 DEF Done, HonestSuccess, Succeeded
  <2> QED BY <2>2, <2>3
<1> QED BY <1>4, <1>5, <1>6, <1>7, <1>8

(* Only init stores a mode.                                                *)
LEMMA ModeStays ==
  ASSUME [Next]_vars, call.op # "init"
  PROVE  mode' = mode
  BY DEF Next, HostStep, DevStep, Finished, Invoke, SendRequest, SendData, NullBuffer, RecvPart,
     RecvData, RecvOverflow, BadMagic, Refused, LegDone, CallDone, RecvResponse, SendFails,
     RecvFails, Reopen, DevReset, DevOpenWrite, DevDrop, DevSend, DevAnswerRead, DevFesCommand,
     DevTakeBody, DevOnly, StoreMode, vars

(* The stored mode stays the device's.                                     *)
LEMMA ModeKept ==
  ASSUME JInv, [Next]_vars
  PROVE  ModeIsCurrent'
<1>0. NoCall.op = "none" /\ (inited /\ ~(call.op = "init" /\ foreign) => mode = devMode)
  BY DEF NoCall, JInv, ModeIsCurrent
<1>1. ASSUME NEW code, NEW f, Return(code, f, TRUE), devMode' = devMode
      PROVE  ModeIsCurrent'
  BY <1>0, <1>1, ModeStays DEF Return, ModeIsCurrent
<1>2. CASE NullBuffer \/ SendFails \/ RecvFails \/ BadMagic \/ RecvOverflow
  <2>1. devMode' = devMode /\ \E code, f : Return(code, f, TRUE)
    BY <1>2 DEF NullBuffer, SendFails, RecvFails, BadMagic, RecvOverflow, RecvResponse, device
  <2> QED BY <1>1, <2>1
<1>3. CASE DevReset \/ Reopen
  BY <1>3 DEF DevReset, Reopen, ModeIsCurrent
<1>4. CASE RecvPart \/ RecvData \/ Refused \/ LegDone \/ CallDone
  <2>1. /\ Receiving /\ call # NoCall /\ inq # <<>> /\ inq' = Tail(inq)
        /\ UNCHANGED <<pending, devMode>>
    BY <1>4 DEF RecvPart, RecvData, Refused, LegDone, CallDone, RecvResponse, Receiving, device
  <2>2. ~Take => ~Doubt /\ ~foreign
    BY DEF Doubt, Take
  <2>3. CASE call.op # "init"
    <3>1. mode' = mode /\ (inited => mode = devMode) /\ (inited' => inited)
      BY <1>0, <1>4, <2>3, ModeStays
         DEF RecvPart, RecvData, Refused, LegDone, CallDone, Return
    <3> QED BY <2>1, <3>1 DEF ModeIsCurrent
  <2>4. CASE call.op = "init" /\ (RecvPart \/ RecvData \/ LegDone)
    <3> SUFFICES ASSUME ~Take, inited PROVE mode' = devMode
      <4>1. UNCHANGED <<call, inited, devMode>> /\ foreign' = Take
        BY <2>1, <2>4 DEF RecvPart, RecvData, LegDone
      <4> QED BY <2>4, <4>1 DEF ModeIsCurrent
    <3>1. mode = devMode
      BY <1>0, <2>2
    <3>2. CASE RecvPart
      <4>1. Need \in Int /\ Head(inq).len = Need
        BY <2>1, <2>2, Awaited, CurLegTyped, TypeParts
           DEF JInv, IInv, LegType, Need, ResponseSize, Host
      <4> QED BY <3>2, <4>1 DEF RecvPart
    <3>3. CASE RecvData
      <4>1. (~tainted' /\ leg' = 2 /\ stage' = "response") => mode' = devMode'
        BY <2>4, <3>3, ReceiveKeeps DEF RecvData, ModeStored
      <4>2. leg # 2 => mode' = mode
        BY <3>3 DEF RecvData, StoreMode
      <4> QED BY <2>1, <2>2, <3>1, <3>3, <4>1, <4>2 DEF RecvData
    <3>4. CASE LegDone
      BY <3>1, <3>4 DEF LegDone, RecvResponse
    <3> QED BY <2>4, <3>2, <3>3, <3>4
  <2>5. CASE call.op = "init" /\ (Refused \/ CallDone)
    <3>1. PICK code \in {Mapped("PROTOCOL"), "SUCCESS"} :
              Return(code, Take, Doubt) /\ UNCHANGED mode /\ (code = "SUCCESS" => CallDone)
      <4>1. Mapped("PROTOCOL") # "SUCCESS"
        BY DEF Mapped
      <4> QED BY <2>5, <4>1 DEF Refused, CallDone, RecvResponse
    <3> SUFFICES ASSUME ~Doubt, inited \/ CallDone PROVE mode = devMode
      BY <2>1, <2>5, <3>1 DEF Return, ModeIsCurrent
    <3>2. ~foreign /\ (tainted => leg = 1)
      BY <2>1, OwnAnswer
    <3>3. CASE CallDone
      <4>1. leg = 3
        BY <2>5, <3>3 DEF CallDone, LastLeg, Legs, EfexInit
      <4> QED BY <2>5, <3>2, <4>1 DEF JInv, ModeStored
    <3> QED BY <1>0, <3>2, <3>3
  <2> QED BY <1>4, <2>3, <2>4, <2>5
<1>5. CASE \/ \E c \in CallsWithId(ncalls + 1) : Invoke(c)
           \/ SendRequest \/ SendData \/ DevStep \/ UNCHANGED vars
  <2>1. UNCHANGED <<mode, devMode, inited, foreign>> /\ (call' = call \/ call = NoCall)
    BY <1>5 DEF Invoke, SendRequest, SendData, DevStep, DevOpenWrite, DevDrop, DevSend,
         DevAnswerRead, DevFesCommand, DevTakeBody, DevOnly, vars, host, ghosts, device
  <2> QED BY <1>0, <2>1 DEF ModeIsCurrent
<1> QED BY <1>2, <1>3, <1>4, <1>5 DEF Next, HostStep, Finished

(* A step of the device that leaves the answers alone, or answers in step. *)
LEMMA DeviceStepKeeps ==
  ASSUME JInv,
         UNCHANGED <<call, leg, stage, mode, ret, tainted, foreign, inited, devMode>>,
         completed \subseteq completed', Carried', ModeStored'
  PROVE  NoArgument' /\ Own' /\ Carried' /\ ModeStored' /\ HonestSuccess'
<1>1. HonestSuccess'
  BY DEF JInv, HonestSuccess, Succeeded
<1> QED BY <1>1 DEF JInv, NoArgument, Own

(* An answer that ends in a response ends in that response's verdict.      *)
LEMMA LastAnswer ==
  ASSUME NEW c, NEW ok, NEW q, Response(c, ok) \in ItemType
  PROVE  /\ q = <<Response(c, ok)>> => q[Len(q)].ok = ok
         /\ \A d \in ItemType : q = <<d, Response(c, ok)>> => q[1] = d /\ q[Len(q)].ok = ok
<1> DEFINE r == Response(c, ok)
<1>1. r.ok = ok
  BY DEF Response, Item
<1> HIDE DEF r
<1>2. \A d : Len(<<r>>) = 1 /\ Len(<<d, r>>) = 2
  OBVIOUS
<1>3. \A d : <<r>>[1] = r /\ <<d, r>>[2] = r /\ <<d, r>>[1] = d
  OBVIOUS
<1>4. q = <<r>> => q[Len(q)].ok = ok
  BY <1>1, <1>2, <1>3, Zenon
<1>5. \A d : q = <<d, r>> => q[1] = d /\ q[Len(q)].ok = ok
  BY <1>1, <1>2, <1>3, Zenon
<1> USE DEF r
<1> QED BY <1>4, <1>5, Zenon

(* The device's steps.                                                     *)
LEMMA DeviceKeeps ==
  ASSUME JInv, DevStep
  PROVE  NoArgument' /\ Own' /\ Carried' /\ ModeStored' /\ HonestSuccess'
<1>1. /\ UNCHANGED <<call, leg, stage, mode, ret, tainted, foreign, inited, devMode>>
      /\ completed \subseteq completed'
  BY DEF DevStep, DevOpenWrite, DevDrop, DevSend, DevAnswerRead, DevFesCommand, DevTakeBody,
       DevOnly, host, ghosts, Completes
<1>2. /\ call \in CallType /\ OnWire(call) \in CallType /\ devMode \in Modes
      /\ CurLeg.len \in Nat
  BY LegFacts, CurLegTyped, TypeParts
     DEF JInv, IInv, Host, Device, DeviceModes, Modes, LegType
<1>0. ASSUME tainted
      PROVE  Carried' /\ ModeStored'
  <2>1. ModeStored'
    BY <1>0, <1>1 DEF ModeStored
  <2>2. CASE Unsure
    BY <2>1, <2>2, DeviceQueued DEF JInv
  <2>3. CASE foreign \/ call = NoCall
    BY <1>0, <1>1, <2>1, <2>3 DEF Carried
  <2>4. CASE ~attached
    BY <2>4 DEF JInv, IInv, Silent, DevStep, DevOpenWrite, DevDrop, DevSend, DevAnswerRead,
         DevFesCommand, DevTakeBody, Taking
  <2> QED BY <1>0, <2>2, <2>3, <2>4, <2>1 DEF Unsure
<1>3. ASSUME Answers' = Answers, UNCHANGED completed
      PROVE  Carried' /\ ModeStored'
  BY <1>1, <1>3 DEF JInv, Carried, ModeStored, Done
<1>4. ASSUME DevOpenWrite \/ DevDrop \/ DevSend
      PROVE  Carried' /\ ModeStored'
  <2>1. UNCHANGED completed
    BY <1>4 DEF DevOpenWrite, DevDrop, DevSend
  <2>2. CASE DevOpenWrite \/ DevDrop
    <3>1. UNCHANGED <<inq, pending>>
      BY <2>2 DEF DevOpenWrite, DevDrop, DevOnly
    <3> QED BY <1>3, <2>1, <3>1 DEF Answers
  <2>3. CASE DevSend
    <3>1. Append(inq, Head(pending)) \o Tail(pending) = Answers
      BY <2>3, AnswersFacts, TypeParts DEF DevSend, JInv, IInv
    <3>2. Answers' = Answers
      BY <2>3, <3>1 DEF DevSend, Answers
    <3> QED BY <1>3, <2>1, <3>2
  <2> QED BY <1>4, <2>2, <2>3
<1>5. ASSUME NEW ok \in BOOLEAN, DevFesCommand(ok)
      PROVE  Carried' /\ ModeStored'
  <2> SUFFICES ASSUME ~tainted PROVE Carried' /\ ModeStored'
    BY <1>0
  <2>1. Synced
    BY <1>5 DEF DevFesCommand, Synced
  <2>2. /\ call.op \in FesOps /\ Completes(OnWire(call), ok)
        /\ \/ Answers' = <<Data(CurLeg.len, OnWire(call), ok, "NULL"), Response(OnWire(call), ok)>>
           \/ Answers' = <<Response(OnWire(call), ok)>>
    BY <1>5, <2>1, FesCommand, Zenon DEF JInv
  <2>3. Answers'[Len(Answers')].ok = ok
    <3>1. /\ Data(CurLeg.len, OnWire(call), ok, "NULL") \in ItemType
          /\ Response(OnWire(call), ok) \in ItemType
      BY <1>2, ItemsTyped DEF Modes
    <3>2. CASE Answers' = <<Response(OnWire(call), ok)>>
      BY <3>1, <3>2, LastAnswer
    <3>3. CASE Answers' = <<Data(CurLeg.len, OnWire(call), ok, "NULL"), Response(OnWire(call), ok)>>
      BY <3>1, <3>3, LastAnswer
    <3> QED BY <2>2, <3>2, <3>3
  <2>4. Carried'
    <3>1. ok => Done(call)'
      BY <1>1, <2>2, CompletesDone
    <3> QED BY <1>1, <2>3, <3>1 DEF Carried, Done
  <2>5. ModeStored'
    <3>1. call.op # "init"
      BY <2>2 DEF FesOps
    <3> QED BY <1>1, <3>1 DEF JInv, ModeStored
  <2> QED BY <2>4, <2>5
<1>6. ASSUME NEW ok \in BOOLEAN, DevTakeBody(ok)
      PROVE  Carried' /\ ModeStored'
  <2> SUFFICES ASSUME ~tainted PROVE Carried' /\ ModeStored'
    BY <1>0
  <2>1. Synced
    BY <1>6 DEF DevTakeBody, JInv, IInv, Deaf, Synced
  <2>2. /\ stage = "response" /\ Answers' = <<Response(OnWire(call), ok)>>
        /\ leg = Len(Legs(call)) => call.op \in FesOps /\ Completes(OnWire(call), ok)
    BY <1>6, <2>1, TakeBody, Zenon DEF JInv
  <2>3. Answers'[Len(Answers')].ok = ok
    <3>1. Response(OnWire(call), ok) \in ItemType
      BY <1>2, ItemsTyped
    <3> QED BY <2>2, <3>1, LastAnswer
  <2>4. Carried'
    <3>1. ok /\ leg = Len(Legs(call)) => Done(call)'
      BY <1>1, <2>2, CompletesDone
    <3> QED BY <1>1, <2>3, <3>1 DEF Carried, Done
  <2>5. ModeStored'
    BY <1>1, <2>2 DEF JInv, ModeStored
  <2> QED BY <2>4, <2>5
<1>7. ASSUME NEW ok \in BOOLEAN, NEW st \in BOOLEAN, DevAnswerRead(ok, st)
      PROVE  Carried' /\ ModeStored'
  <2> SUFFICES ASSUME ~tainted PROVE Carried' /\ ModeStored'
    BY <1>0
  <2> DEFINE m == IF call.op = "init" /\ leg = 2 THEN devMode ELSE "NULL"
  <2>1. Synced
    BY <1>7, Heard DEF DevAnswerRead, JInv
  <2>2. /\ call.op \notin FesOps /\ OnWire(call) = call /\ stage = "data"
        /\ Answers' = <<Data(CurLeg.len, call, st, m), Response(call, ok)>>
        /\ leg = Len(Legs(call)) /\ ok => Completes(call, st)
    BY <1>7, <2>1, AnswerRead, Zenon DEF JInv
  <2>3. m \in Modes
    BY <1>2 DEF Modes
  <2>4. Answers'[Len(Answers')].ok = ok /\ Answers'[1].mode = m
    <3> HIDE DEF m
    <3>1. Data(CurLeg.len, call, st, m) \in ItemType /\ Response(call, ok) \in ItemType
      BY <1>2, <2>3, ItemsTyped
    <3>2. Data(CurLeg.len, call, st, m).mode = m
      BY DEF Data, Item
    <3>3. Answers'[1] = Data(CurLeg.len, call, st, m) /\ Answers'[Len(Answers')].ok = ok
      BY <2>2, <3>1, LastAnswer
    <3> QED BY <3>2, <3>3
  <2>5. Carried'
    <3>1. ok /\ leg = Len(Legs(call)) => Done(call)'
      BY <1>1, <2>2, CompletesDone
    <3> QED BY <1>1, <2>4, <3>1 DEF Carried, Done
  <2>6. ModeStored'
    BY <1>1, <2>2, <2>4 DEF JInv, ModeStored
  <2> QED BY <2>5, <2>6
<1>8. Carried' /\ ModeStored'
  BY <1>4, <1>5, <1>6, <1>7 DEF DevStep
<1> QED BY <1>1, <1>8, DeviceStepKeeps

(* The strengthening is inductive.                                         *)
LEMMA StepKeeps ==
  JInv /\ [Next]_vars => JInv'
<1> SUFFICES ASSUME JInv, [Next]_vars PROVE JInv'
  OBVIOUS
<1>1. IInv'
  BY StepInStep DEF JInv
<1>2. ASSUME UNCHANGED vars
      PROVE  NoArgument' /\ Own' /\ Carried' /\ ModeStored' /\ HonestSuccess'
  BY <1>2 DEF vars, host, ghosts, device, JInv, NoArgument, Own, Carried, Answers, Done,
       ModeStored, HonestSuccess, Succeeded
<1>3. NoArgument' /\ Own' /\ Carried' /\ ModeStored' /\ HonestSuccess'
  BY <1>2, FaultKeeps, SendKeeps, ReceiveKeeps, DeviceKeeps DEF Next, HostStep, Finished
<1> QED BY <1>1, <1>3, ModeKept DEF JInv

(* It holds before the first call.                                         *)
LEMMA InitKeeps ==
  Init => JInv
<1> SUFFICES ASSUME Init PROVE JInv
  OBVIOUS
<1>1. IInv /\ NoCall.op = "none"
  BY InitInStep DEF NoCall
<1> QED BY <1>1
        DEF Init, Record, JInv, NoArgument, Own, Carried, ModeStored, ModeIsCurrent,
            HonestSuccess, Succeeded

(* A call that returns SUCCESS, no transfer having failed before it or its *)
(* own answer having come first, has read only its own answers, and the    *)
(* device has carried out that very command, for FES with a good status;   *)
(* flash switching excepted.                                               *)
THEOREM SuccessIsHonest == Spec => []HonestSuccess
<1>1. JInv => HonestSuccess
  BY DEF JInv
<1> QED BY <1>1, InitKeeps, StepKeeps, PTL DEF Spec

(* From a successful init in step on and until the device re-enumerates,   *)
(* whatever fails or is refused in between, the mode the guards of the FEL *)
(* and FES functions test is the mode of the firmware, unless an init went *)
(* wrong.                                                                  *)
THEOREM ModeStaysCurrent == Spec => []ModeIsCurrent
<1>1. JInv => ModeIsCurrent
  BY DEF JInv
<1> QED BY <1>1, InitKeeps, StepKeeps, PTL DEF Spec
=============================================================================
