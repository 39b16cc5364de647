---------------------------- MODULE EfexSession ----------------------------
(***************************************************************************)
(* One libefex context talking to one device over its two bulk pipes.      *)
(*                                                                         *)
(* Every library call is a fixed sequence of LEGS.  A leg is what          *)
(* sunxi_usb_write, sunxi_usb_read or sunxi_usb_fes_xfer performs: a       *)
(* header on the OUT pipe, an optional data transfer in either direction   *)
(* and a 13-byte "AWUS" response on the IN pipe.  The host takes one bulk  *)
(* transfer per step.  Nothing in a header or a response is matched with   *)
(* its peer: `tag' is always 0 and never read, so the only thing that ties *)
(* an answer to its question is its position in the pipe.                  *)
(*                                                                         *)
(* The device (boot ROM in FEL mode, U-Boot in SRV mode) is external: it   *)
(* is modelled from the exchanges the host code relies on.  Call ids are   *)
(* ghosts: they let properties say whose answer was consumed.              *)
(***************************************************************************)
EXTENDS Integers, Sequences

CONSTANTS
  Ops,        \* the library calls the application makes
  Lens,       \* byte counts of their data legs
  Args,       \* argument values a request carries (address, flash type, ...)
  ZeroArg,    \* what the device sees when the argument is not transmitted
  MaxCalls,   \* bound: number of library calls
  MaxFaults   \* bound: failed transfers and device resets

FelOps == {"fel_exec", "fel_read", "fel_write"}
FesOps == {"fes_query", "fes_switch", "fes_tool_mode", "fes_down", "fes_up", "fes_verify"}
DataOps == {"fel_read", "fel_write", "fes_query", "fes_down", "fes_up", "fes_verify"}
AllOps == FelOps \cup FesOps \cup {"init"}

ASSUME OpsAssumption == Ops \subseteq AllOps
ASSUME LensAssumption == Lens \subseteq (Nat \ {0})
ASSUME BoundsAssumption == MaxCalls \in Nat /\ MaxFaults \in Nat

Modes == {"NULL", "FEL", "SRV"}   \* sunxi_verify_device_mode_t
DeviceModes == {"FEL", "SRV"}     \* the two a connected device is in here

(* The members of sunxi_efex_error_t that these calls return.              *)
Codes == {"SUCCESS", "INVALID_PARAM", "NULL_PTR", "INVALID_DEVICE_MODE", "INVALID_RESPONSE",
          "PROTOCOL", "USB_TRANSFER", "USB_TIMEOUT"}

UsbRequestSize == 32   \* sizeof(struct sunxi_usb_request_t)
FesXferSize == 20      \* sizeof(struct sunxi_fes_xfer_t)
ResponseSize == 13     \* sizeof(struct sunxi_usb_response_t)
EfexRequestSize == 16  \* sizeof(struct sunxi_efex_request_t)
StatusSize == 8        \* sizeof(struct sunxi_efex_response_t)
DeviceRespSize == 32   \* sizeof(struct sunxi_efex_device_resp_t)
FesBufSize == 12       \* sizeof(sunxi_fes_xfer_t.buf)

NoCall == [id |-> 0, op |-> "none", len |-> 0, arg |-> ZeroArg, null |-> FALSE]

(* The calls the application can make next; `null' is a NULL result        *)
(* pointer, which the storage, secure and flash-size queries and the       *)
(* verify calls pass on.  An argument of zero is left out: a lost one      *)
(* could not be told from it.                                              *)
CallsWithId(i) ==
  {c \in [id : {i}, op : Ops, len : Lens \cup {0}, arg : Args \cup {ZeroArg},
          null : BOOLEAN] :
     /\ (c.len # 0) <=> (c.op \in DataOps)
     /\ (c.arg = ZeroArg) <=> (c.op \in {"init", "fes_query"})
     /\ c.null => c.op \in {"fes_query", "fes_verify"}}

(***************************************************************************)
(* Legs.  `wrap' says that the caller maps every error of the leg to       *)
(* EFEX_ERR_USB_TRANSFER instead of passing it on.                         *)
(***************************************************************************)
Leg(via, dir, len, wrap) == [via |-> via, dir |-> dir, len |-> len, wrap |-> wrap]

UsbWrite(len, wrap) == Leg("usb", "write", len, wrap)
UsbRead(len, wrap) == Leg("usb", "read", len, wrap)

SendEfexRequest == UsbWrite(EfexRequestSize, TRUE)
ReadEfexStatus == UsbRead(StatusSize, TRUE)

EfexInit == <<SendEfexRequest, UsbRead(DeviceRespSize, TRUE), ReadEfexStatus>>
FelExec == <<SendEfexRequest, ReadEfexStatus>>
FelReadData(n) == <<SendEfexRequest, UsbRead(n, FALSE), ReadEfexStatus>>
FelWriteData(n) == <<SendEfexRequest, UsbWrite(n, FALSE), ReadEfexStatus>>

FesDir(op) == CASE op = "fes_down" -> "write"
                [] op \in {"fes_switch", "fes_tool_mode"} -> "none"
                [] OTHER -> "read"
FesXfer(c) == <<Leg("fes", FesDir(c.op), c.len, FALSE)>>

Legs(c) == CASE c.op = "init" -> EfexInit
             [] c.op = "fel_exec" -> FelExec
             [] c.op = "fel_read" -> FelReadData(c.len)
             [] c.op = "fel_write" -> FelWriteData(c.len)
             [] OTHER -> FesXfer(c)

(* Bytes of request_buf each FES call hands to sunxi_usb_fes_xfer, and     *)
(* what of it reaches the wire: the copy is skipped, without an error,     *)
(* when the request is larger than the 12-byte field.                      *)
FesRequestLen(op) == CASE op = "fes_query" -> 0
                       [] op = "fes_switch" -> 68   \* sunxi_fes_flash_t
                       [] OTHER -> 12               \* trans, tool mode

(* Mutant: `<' for `<=' in the test against the size of the field.         *)
OnWireStrict(c) == IF c.op \in FesOps /\ FesRequestLen(c.op) \notin 1..FesBufSize-1
                     THEN [c EXCEPT !.arg = ZeroArg] ELSE c

OnWire(c) == IF c.op \in FesOps /\ FesRequestLen(c.op) \notin 1..FesBufSize
               THEN [c EXCEPT !.arg = ZeroArg] ELSE c

(* The mode guards at the top of the FEL functions and of fes_xfer.        *)
Refusal(c, m) == CASE c.op \in FelOps /\ m # "FEL" -> "INVALID_DEVICE_MODE"
                   [] c.op \in FesOps /\ m # "SRV" -> "INVALID_PARAM"
                   [] OTHER -> "SUCCESS"

----------------------------------------------------------------------------
VARIABLES
  call, leg, stage, got,  \* host: the call in progress and where it stands
  mode,                   \* host: ctx->resp.mode
  ret,                    \* ghost: what the last call returned
  ncalls, faults,         \* bounds
  tainted,                \* ghost: a transfer failed since the open, and since
                          \*        then no answer to the call in progress came
  foreign,                \* ghost: the call consumed an answer not its own
  inited,                 \* ghost: an init in step succeeded since the open,
                          \*        and none has gone wrong since
  outq, inq,              \* the two bulk pipes
  attached, devMode,      \* device: behind the open handle?  which firmware?
  devCall, devLeg,        \* device: FEL command in progress, its next leg
  devOpen,                \* device: header whose data it is collecting
  pending,                \* device: answers computed but not yet sent
  completed               \* device: commands carried out, with their status

host == <<call, leg, stage, got>>
ghosts == <<ncalls, faults, tainted, inited>>
device == <<attached, devMode, devCall, devLeg, devOpen, pending, completed>>
vars == <<host, mode, ret, ghosts, foreign, outq, inq, device>>

Item(kind, len, c, l, ok, m) ==
  [kind |-> kind, len |-> len, call |-> c, leg |-> l, ok |-> ok, mode |-> m]
NoItem == Item("none", 0, NoCall, 1, TRUE, "NULL")

Header(c, l) == Item("header",
                     IF Legs(c)[l].via = "usb" THEN UsbRequestSize ELSE FesXferSize,
                     OnWire(c), l, TRUE, "NULL")
Body(c, l) == Item("body", Legs(c)[l].len, OnWire(c), l, TRUE, "NULL")
LegOf(h) == Legs(h.call)[h.leg]

CurLeg == Legs(call)[leg]

(***************************************************************************)
(* Host.  One action per bulk transfer of the call in progress.            *)
(***************************************************************************)
Record(c, code, f, t) == [call |-> c, code |-> code, foreign |-> f, tainted |-> t]

(* The call returns `code'; t says whether the pipes may now be out of     *)
(* step.                                                                   *)
Return(code, f, t) ==
  /\ ret' = Record(call, code, f, t)
  /\ call' = NoCall /\ leg' = 1 /\ stage' = "request" /\ got' = 0
  /\ foreign' = FALSE
  /\ tainted' = t
  /\ inited' = IF call.op = "init" THEN ~t /\ (inited \/ code = "SUCCESS") ELSE inited

(* The error a failing leg makes the call return.                          *)
Mapped(code) == IF CurLeg.wrap THEN "USB_TRANSFER" ELSE code

Invoke(c) ==
  /\ call = NoCall /\ ncalls < MaxCalls
  /\ ncalls' = ncalls + 1
  /\ IF Refusal(c, mode) = "SUCCESS"
       THEN call' = c /\ UNCHANGED ret
       ELSE ret' = Record(c, Refusal(c, mode), FALSE, tainted) /\ UNCHANGED call
  /\ UNCHANGED <<leg, stage, got, mode, faults, tainted, inited, foreign, outq, inq, device>>

(* The first bulk send of a leg: the USB request or the FES header.        *)
SendRequest ==
  /\ call # NoCall /\ stage = "request" /\ attached
  /\ outq' = Append(outq, Header(call, leg))
  /\ stage' = IF CurLeg.dir = "none" THEN "response" ELSE "data"
  /\ UNCHANGED <<call, leg, got, mode, ret, ghosts, foreign, inq, device>>

SendData ==
  /\ call # NoCall /\ stage = "data" /\ CurLeg.dir = "write" /\ attached
  /\ outq' = Append(outq, Body(call, leg))
  /\ stage' = "response"
  /\ UNCHANGED <<call, leg, got, mode, ret, ghosts, foreign, inq, device>>

(* sunxi_usb_fes_xfer looks at the result pointer only after the header    *)
(* has gone out.                                                           *)
NullBuffer ==
  /\ call # NoCall /\ stage = "data" /\ call.null
  /\ Return("NULL_PTR", foreign, TRUE)
  /\ UNCHANGED <<mode, ncalls, faults, outq, inq, device>>

Receiving == /\ call # NoCall
             /\ \/ stage = "data" /\ CurLeg.dir = "read" /\ ~call.null
                \/ stage = "response"
Need == (IF stage = "data" THEN CurLeg.len ELSE ResponseSize) - got
Take == foreign \/ Head(inq).call.id # call.id
(* Ghost: an answer to this call, with none of another before it, shows    *)
(* that the pipes hold nothing of the calls before.                        *)
Doubt == tainted /\ Take

(* The bytes of init's second leg land in ctx->resp as they arrive.        *)
(* Mutant: the chip data is read by the last leg, the status by the second. *)
StoreModeLate(i) ==
  IF call.op = "init" /\ leg = 3 /\ stage = "data" THEN mode' \in Modes ELSE mode' = mode

StoreMode(i) ==
  IF call.op = "init" /\ leg = 2 /\ stage = "data"
    THEN IF got = 0 /\ i.kind = "body" /\ i.len = DeviceRespSize /\ i.mode # "NULL"
           THEN mode' = i.mode
           ELSE mode' \in Modes
    ELSE mode' = mode

(* libusb_bulk_recv loops until exactly the requested bytes are there.     *)
(* Mutant: a short packet does not advance the loop.                       *)
RecvPartStuck ==
  /\ Receiving /\ inq # <<>> /\ Head(inq).len < Need
  /\ UNCHANGED vars

RecvPart ==
  /\ Receiving /\ inq # <<>> /\ Head(inq).len < Need
  /\ got' = got + Head(inq).len
  /\ StoreMode(Head(inq))
  /\ foreign' = Take /\ tainted' = Doubt /\ inq' = Tail(inq)
  /\ UNCHANGED <<call, leg, stage, ret, ncalls, faults, inited, outq, device>>

RecvData ==
  /\ Receiving /\ stage = "data" /\ inq # <<>> /\ Head(inq).len = Need
  /\ stage' = "response" /\ got' = 0
  /\ StoreMode(Head(inq))
  /\ foreign' = Take /\ tainted' = Doubt /\ inq' = Tail(inq)
  /\ UNCHANGED <<call, leg, ret, ncalls, faults, inited, outq, device>>

(* sunxi_read_usb_response and what its callers make of it: bytes that do  *)
(* not start with the magic, a refusal, the next leg, or the end.          *)
RecvResponse(valid, ok) ==
  /\ Receiving /\ stage = "response" /\ inq # <<>> /\ Head(inq).len = Need
  /\ valid = (got = 0 /\ Head(inq).kind = "response") /\ ok = Head(inq).ok
  /\ inq' = Tail(inq)
  /\ UNCHANGED <<mode, ncalls, faults, outq, device>>
(* Mutant: the call goes on after its last leg.                            *)
LastLegMissed == leg > Len(Legs(call))
(* Mutant: a command returns without reading its status.                   *)
LastLegEarly == leg + 1 >= Len(Legs(call))
LastLeg == leg = Len(Legs(call))

BadMagic == /\ \E ok \in BOOLEAN : RecvResponse(FALSE, ok)
            /\ Return(Mapped("INVALID_RESPONSE"), Take, TRUE)

(* Mutant: a positive status does not stop the call.                       *)
RefusedGoesOn == /\ RecvResponse(TRUE, FALSE) /\ ~LastLeg
                 /\ leg' = leg + 1 /\ stage' = "request" /\ got' = 0
                 /\ foreign' = Take /\ tainted' = Doubt
                 /\ UNCHANGED <<call, ret, inited>>

Refused == /\ RecvResponse(TRUE, FALSE)
           /\ Return(Mapped("PROTOCOL"), Take, Doubt)

LegDone == /\ RecvResponse(TRUE, TRUE) /\ ~LastLeg
           /\ leg' = leg + 1 /\ stage' = "request" /\ got' = 0
           /\ foreign' = Take /\ tainted' = Doubt
           /\ UNCHANGED <<call, ret, inited>>

CallDone == /\ RecvResponse(TRUE, TRUE) /\ LastLeg
            /\ Return("SUCCESS", Take, Doubt)

(* A packet larger than what is left of the buffer: LIBUSB_ERROR_OVERFLOW, *)
(* the packet is gone, what fitted has landed.                             *)
RecvOverflow ==
  /\ Receiving /\ inq # <<>> /\ Head(inq).len > Need
  /\ StoreMode(Head(inq)) /\ inq' = Tail(inq)
  /\ Return("USB_TRANSFER", Take, TRUE)
  /\ UNCHANGED <<ncalls, faults, outq, device>>

CountFault == IF attached THEN faults < MaxFaults /\ faults' = faults + 1
                          ELSE UNCHANGED faults

(* A bulk send that fails or times out; the device may still have got it.  *)
SendFails ==
  /\ call # NoCall
  /\ stage = "request" \/ (stage = "data" /\ CurLeg.dir = "write")
  /\ CountFault
  /\ \E code \in {"USB_TRANSFER", "USB_TIMEOUT"} : Return(Mapped(code), foreign, TRUE)
  /\ LET sent == IF stage = "request" THEN Header(call, leg) ELSE Body(call, leg)
     IN  outq' = outq \/ (attached /\ outq' = Append(outq, sent))
  /\ UNCHANGED <<mode, ncalls, inq, device>>

DeviceQuiet == outq = <<>> /\ pending = <<>>

(* A bulk receive that times out before the answer comes, for good when    *)
(* the device has nothing more to say, or that loses the packet.           *)
RecvFails ==
  /\ Receiving
  /\ \/ inq = <<>> /\ DeviceQuiet /\ UNCHANGED <<faults, inq>>
     \/ inq = <<>> /\ ~DeviceQuiet /\ CountFault /\ UNCHANGED inq
     \/ inq # <<>> /\ CountFault /\ inq' = Tail(inq)
  /\ \E code \in {"USB_TRANSFER", "USB_TIMEOUT"} : Return(Mapped(code), foreign, TRUE)
  /\ UNCHANGED <<mode, ncalls, outq, device>>

(* sunxi_usb_exit, sunxi_scan_usb_device, sunxi_usb_init once the device   *)
(* has re-enumerated.  ctx->resp is left as it was.                        *)
Reopen ==
  /\ call = NoCall /\ ~attached
  /\ attached' = TRUE /\ tainted' = FALSE /\ inited' = FALSE
  /\ UNCHANGED <<host, mode, ret, ncalls, faults, foreign, outq, inq,
                 devMode, devCall, devLeg, devOpen, pending, completed>>

(***************************************************************************)
(* Device.                                                                 *)
(***************************************************************************)
Response(c, ok) == Item("response", ResponseSize, c, 1, ok, "NULL")
Data(n, c, st, m) == Item("body", n, c, 1, st, m)
Completes(c, st) == completed' = completed \cup {[call |-> c, ok |-> st]}

Taking(kind) == /\ outq # <<>> /\ pending = <<>> /\ Head(outq).kind = kind
                /\ outq' = Tail(outq)
DevOnly == UNCHANGED <<host, mode, ret, ghosts, foreign, inq, attached, devMode>>

(* A header that announces data for the device.                            *)
DevOpenWrite ==
  /\ Taking("header")
  /\ LegOf(Head(outq)).dir = "write"
  /\ LegOf(Head(outq)).via = "fes" => devMode = "SRV"
  /\ devOpen' = Head(outq)
  /\ DevOnly /\ UNCHANGED <<pending, devCall, devLeg, completed>>

(* A USB read request: data of the command in progress, then the response. *)
(* The status that ends a command is data; a refusal abandons the command. *)
DevAnswerRead(ok, st) ==
  /\ Taking("header")
  /\ LegOf(Head(outq)).via = "usb" /\ LegOf(Head(outq)).dir = "read"
  /\ LET h == Head(outq)
         expected == /\ devCall # NoCall
                     /\ devLeg \in DOMAIN Legs(devCall)
                     /\ Legs(devCall)[devLeg] = LegOf(h)
         last == expected /\ devLeg = Len(Legs(devCall))
         m == IF expected /\ devCall.op = "init" /\ devLeg = 2 THEN devMode ELSE "NULL"
     IN  /\ st \/ last
         /\ pending' = <<Data(LegOf(h).len, devCall, st, m), Response(h.call, ok)>>
         /\ devCall' = IF expected /\ (~ok \/ last) THEN NoCall ELSE devCall
         /\ devLeg' = IF ~expected THEN devLeg ELSE IF ~ok \/ last THEN 1 ELSE devLeg + 1
         /\ IF last /\ ok THEN Completes(devCall, st) ELSE UNCHANGED completed
  /\ devOpen' = NoItem /\ DevOnly

(* A FES header without data for the device: U-Boot carries the command    *)
(* out and answers.                                                        *)
DevFesCommand(ok) ==
  /\ Taking("header") /\ devMode = "SRV"
  /\ LegOf(Head(outq)).via = "fes" /\ LegOf(Head(outq)).dir # "write"
  /\ LET h == Head(outq) IN
     /\ pending' = IF LegOf(h).dir = "read"
                     THEN <<Data(LegOf(h).len, h.call, ok, "NULL"), Response(h.call, ok)>>
                     ELSE <<Response(h.call, ok)>>
     /\ Completes(h.call, ok)
  /\ devOpen' = NoItem /\ devCall' = NoCall /\ devLeg' = 1 /\ DevOnly

(* The announced data: a new EFEX request, the data of the FEL command in  *)
(* progress, or the data of a FES command.                                 *)
DevTakeBody(ok) ==
  /\ Taking("body") /\ devOpen # NoItem
  /\ Head(outq).len = LegOf(devOpen).len
  /\ devOpen' = NoItem
  /\ pending' = <<Response(devOpen.call, ok)>>
  /\ \/ /\ LegOf(devOpen).via = "fes"
        /\ Completes(devOpen.call, ok) /\ devCall' = NoCall /\ devLeg' = 1
     \/ /\ LegOf(devOpen).via = "usb" /\ Head(outq).leg = 1
        /\ devCall' = IF ok THEN Head(outq).call ELSE NoCall
        /\ devLeg' = IF ok THEN 2 ELSE 1
        /\ UNCHANGED completed
     \/ /\ LegOf(devOpen).via = "usb" /\ Head(outq).leg # 1
        /\ devCall' = IF ok /\ devLeg = 2 THEN devCall ELSE NoCall
        /\ devLeg' = IF ok /\ devLeg = 2 THEN 3 ELSE 1
        /\ UNCHANGED completed
  /\ DevOnly

(* Bytes that fit nothing the firmware waits for are dropped.              *)
DevDrop ==
  /\ \/ Taking("header") /\ LegOf(Head(outq)).via = "fes" /\ devMode = "FEL"
     \/ Taking("body") /\ devOpen = NoItem
     \/ Taking("body") /\ devOpen # NoItem /\ Head(outq).len # LegOf(devOpen).len
  /\ devOpen' = NoItem
  /\ DevOnly /\ UNCHANGED <<devCall, devLeg, pending, completed>>

DevSend ==
  /\ pending # <<>>
  /\ inq' = Append(inq, Head(pending)) /\ pending' = Tail(pending)
  /\ UNCHANGED <<host, mode, ret, ghosts, foreign, outq, attached, devMode, devCall, devLeg,
                 devOpen, completed>>

(* The device leaves the bus and comes back, possibly with other firmware: *)
(* the open handle is dead and whatever was in the pipes is gone.          *)
DevReset ==
  /\ attached /\ faults < MaxFaults
  /\ faults' = faults + 1 /\ tainted' = TRUE /\ inited' = FALSE
  /\ attached' = FALSE /\ devMode' \in DeviceModes
  /\ outq' = <<>> /\ inq' = <<>> /\ pending' = <<>>
  /\ devCall' = NoCall /\ devLeg' = 1 /\ devOpen' = NoItem
  /\ UNCHANGED <<host, mode, ret, ncalls, foreign, completed>>

----------------------------------------------------------------------------
Init ==
  /\ call = NoCall /\ leg = 1 /\ stage = "request" /\ got = 0
  /\ mode = "NULL"
  /\ ret = Record(NoCall, "SUCCESS", FALSE, TRUE)
  /\ ncalls = 0 /\ faults = 0 /\ tainted = FALSE /\ foreign = FALSE /\ inited = FALSE
  /\ outq = <<>> /\ inq = <<>>
  /\ attached = TRUE /\ devMode \in DeviceModes
  /\ devCall = NoCall /\ devLeg = 1 /\ devOpen = NoItem /\ pending = <<>>
  /\ completed = {}

HostStep ==
  \/ SendRequest \/ SendData \/ NullBuffer
  \/ RecvPart \/ RecvData \/ RecvOverflow
  \/ BadMagic \/ Refused \/ LegDone \/ CallDone
  \/ SendFails \/ RecvFails

DevStep ==
  \/ DevOpenWrite \/ DevDrop \/ DevSend
  \/ \E ok, st \in BOOLEAN : DevAnswerRead(ok, st)
  \/ \E ok \in BOOLEAN : DevFesCommand(ok) \/ DevTakeBody(ok)

(* The application makes no further call.                                  *)
Finished == call = NoCall /\ ncalls = MaxCalls /\ UNCHANGED vars

Next == \/ \E c \in CallsWithId(ncalls + 1) : Invoke(c)
        \/ HostStep \/ Reopen \/ DevStep \/ DevReset \/ Finished

Spec == Init /\ [][Next]_vars

(* A blocking call keeps executing and every bulk transfer has a finite    *)
(* timeout; the firmware keeps serving its pipes.                          *)
FairSpec == Spec /\ WF_vars(HostStep) /\ WF_vars(DevStep)

----------------------------------------------------------------------------
(* Type invariant: host, pipes and device hold what the code can put there. *)
CallType == [id : Nat, op : AllOps \cup {"none"}, len : Nat,
             arg : Args \cup {ZeroArg}, null : BOOLEAN]
ItemType == {i \in [kind : {"none", "header", "body", "response"}, len : Nat,
                    call : CallType, leg : 1..3, ok : BOOLEAN, mode : Modes] :
               i.leg <= Len(Legs(i.call))}

TypeOK ==
  /\ call \in CallType /\ leg \in 1..Len(Legs(call))
  /\ stage \in {"request", "data", "response"} /\ got \in Nat
  /\ mode \in Modes
  /\ ret \in [call : CallType, code : Codes, foreign : BOOLEAN, tainted : BOOLEAN]
  /\ ncalls \in 0..MaxCalls /\ faults \in 0..MaxFaults
  /\ tainted \in BOOLEAN /\ foreign \in BOOLEAN /\ inited \in BOOLEAN
  /\ outq \in Seq(ItemType) /\ inq \in Seq(ItemType) /\ pending \in Seq(ItemType)
  /\ attached \in BOOLEAN /\ devMode \in DeviceModes
  /\ devCall \in CallType /\ devLeg \in 1..3 /\ devOpen \in ItemType
  /\ completed \subseteq [call : CallType, ok : BOOLEAN]

(***************************************************************************)
(* While no transfer has failed since the handle was opened, and again     *)
(* from the first answer on that a later call reads as its own, the host   *)
(* and the device stand at the same place of the same call.  So a command  *)
(* the device REFUSES (PROTOCOL) leaves nothing behind in either pipe: the *)
(* next call starts clean (sunxi_usb_write 60-77, sunxi_usb_read 85-102,   *)
(* sunxi_usb_fes_xfer 126-157).                                            *)
(***************************************************************************)
Answers == inq \o pending
Hdr == Header(call, leg)

DeviceAt(c, l) == IF l = 1 THEN devCall = NoCall
                  ELSE devCall = c /\ devLeg = l

Before == outq = <<>> /\ Answers = <<>> /\ devOpen = NoItem /\ DeviceAt(call, leg)
HeaderSent == outq = <<Hdr>> /\ Answers = <<>> /\ devOpen = NoItem /\ DeviceAt(call, leg)
Collecting == outq = <<>> /\ Answers = <<>> /\ devOpen = Hdr /\ DeviceAt(call, leg)
DataSent == /\ Answers = <<>> /\ DeviceAt(call, leg)
            /\ \/ outq = <<Hdr, Body(call, leg)>> /\ devOpen = NoItem
               \/ outq = <<Body(call, leg)>> /\ devOpen = Hdr
IsResponse(i) == i.kind = "response" /\ i.len = ResponseSize /\ i.call = OnWire(call)
IsData(i) == i.kind = "body" /\ i.len = CurLeg.len /\ i.call = OnWire(call)
(* After an accepted leg the device is at the next one, after the last leg *)
(* or a refusal it is idle.                                                *)
DeviceAfter(ok) == IF ok /\ leg < Len(Legs(call)) THEN devCall = call /\ devLeg = leg + 1
                   ELSE devCall = NoCall
Answered(n) == /\ outq = <<>> /\ devOpen = NoItem
               /\ Len(Answers) = n /\ IsResponse(Answers[n])
               /\ DeviceAfter(Answers[n].ok)

(* A FES call made on the strength of a mode left over from before the     *)
(* device re-enumerated meets firmware that does not speak FES.            *)
Synced == ~tainted /\ (call.op \in FesOps => devMode = "SRV")

InStep ==
  Synced =>
    IF call = NoCall
      THEN Before /\ got = 0
      ELSE /\ leg \in DOMAIN Legs(call) /\ got = 0
           /\ CASE stage = "request" -> Before
                [] stage = "data" /\ CurLeg.dir = "write" -> HeaderSent \/ Collecting
                [] stage = "data" /\ CurLeg.dir = "read" ->
                     HeaderSent \/ (Answered(2) /\ IsData(Answers[1]))
                [] stage = "response" /\ CurLeg.dir = "write" -> DataSent \/ Answered(1)
                [] stage = "response" /\ CurLeg.dir = "read" -> Answered(1)
                [] stage = "response" /\ CurLeg.dir = "none" -> HeaderSent \/ Answered(1)
                [] OTHER -> FALSE

(* A call that returns SUCCESS, with no failed transfer before it or with  *)
(* its own answer first, read only its own answers, and the device has     *)
(* carried out that very command with the caller's argument; for FES with  *)
(* a good status.  fes_switch is left out: see SwitchDelivered.            *)
Succeeded == ret.call # NoCall /\ ret.code = "SUCCESS"
HonestSuccess ==
  Succeeded /\ ~ret.tainted =>
    /\ ~ret.foreign
    /\ ret.call.op # "fes_switch" =>
         \E d \in completed : d.call = ret.call /\ (ret.call.op \in FesOps => d.ok)

(* A call that read only its own answers and returned SUCCESS leaves the   *)
(* pipes empty and the device idle, whatever failed, was lost or came late *)
(* before it: one such call is enough to get back in step.                 *)
Resynced ==
  call = NoCall /\ Succeeded /\ ~ret.foreign =>
    outq = <<>> /\ Answers = <<>> /\ devOpen = NoItem /\ devCall = NoCall

(* The mode every FEL and FES guard tests is the mode of the firmware that *)
(* is there, from a successful sunxi_efex_init on and until the device     *)
(* re-enumerates, whatever is refused or fails in between; only an init    *)
(* that goes wrong may store another.                                      *)
ModeIsCurrent == inited /\ ~(call.op = "init" /\ foreign) => mode = devMode

(* Every call returns.                                                     *)
CallReturns == call # NoCall ~> call = NoCall

(***************************************************************************)
(* What the headers promise and the code does not keep.                    *)
(***************************************************************************)
(* efex-fes.h: a FES call returns 0 on success, a negative value on        *)
(* failure: 0 means that the device carried out this command.              *)
FesZeroMeansDone ==
  Succeeded /\ ret.call.op \in FesOps =>
    \E d \in completed : d.call.id = ret.call.id /\ d.ok

(* efex-fel.h: sunxi_efex_fel_read reads memory from the specified address *)
(* into the buffer: on success the bytes are those of this call.           *)
FelReadOwnData == Succeeded /\ ret.call.op = "fel_read" => ~ret.foreign

(* efex-fes.h: the active storage is switched to `flash_type'.             *)
SwitchDelivered ==
  Succeeded /\ ret.call.op = "fes_switch" /\ ~ret.tainted =>
    \E d \in completed : d.call.id = ret.call.id /\ d.call.arg = ret.call.arg

(* efex-common.h: the status the device reports is what the caller gets.   *)
StatusReported ==
  Succeeded /\ ret.call.op \in FelOps \cup {"init"} /\ ~ret.tainted =>
    \A d \in completed : d.call.id = ret.call.id => d.ok
=============================================================================
