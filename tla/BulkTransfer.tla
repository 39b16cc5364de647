---------------------------- MODULE BulkTransfer ----------------------------
(***************************************************************************)
(* The byte loops of the two backends: sending and receiving a buffer      *)
(* through sunxi_usb_bulk_send and sunxi_usb_bulk_recv, one request to the *)
(* operating system per step.                                              *)
(*                                                                         *)
(* The operating system is external.  It moves any number of bytes up to   *)
(* the requested one, in order; a request that succeeds may have moved     *)
(* none (a zero-length packet), and one that fails may have moved some,    *)
(* which the loops do not count.  EfexSession has what the bytes mean.     *)
(***************************************************************************)
EXTENDS Integers, Sequences

CONSTANTS
  Backends,   \* the backends in use: TRUE for WinUSB, FALSE for libusb
  Dirs,       \* directions of the transfers: "send", "recv"
  Lens,       \* lengths the callers ask for
  MaxChunk,   \* 128 KB, the most that one request sends
  Falters,    \* whether the device may stop answering for a while, or for good
  MaxEmpties  \* bound: successful requests in a row that move nothing

ASSUME BulkAssumption ==
  /\ Backends \subseteq BOOLEAN /\ Falters \in BOOLEAN /\ Dirs \subseteq {"send", "recv"}
  /\ Lens \subseteq Nat \ {0}
  /\ MaxChunk \in Nat \ {0} /\ MaxEmpties \in Nat

VARIABLES
  winusb,   \* which backend it is, the same throughout
  dir,      \* direction of the transfer
  total,    \* ghost: the length the caller asked for
  len,      \* local: bytes left
  buf,      \* local: offset of the next byte in the caller's buffer
  wire,     \* ghost: buffer positions in the order their bytes moved
  silent,   \* the device does not answer
  empties,  \* bound
  result    \* "idle", "busy" or what the call returned
vars == <<winusb, dir, total, len, buf, wire, silent, empties, result>>

Errors == {"USB_TIMEOUT", "USB_TRANSFER"}

TypeOK ==
  /\ winusb \in BOOLEAN
  /\ dir \in {"send", "recv"}
  /\ total \in Nat /\ len \in Nat /\ buf \in Nat
  /\ wire \in Seq(Nat)
  /\ silent \in BOOLEAN
  /\ empties \in 0..MaxEmpties
  /\ result \in {"idle", "busy", "NULL_PTR", "SUCCESS"} \cup Errors

Init ==
  /\ winusb \in Backends
  /\ dir \in Dirs
  /\ total = 0 /\ len = 0 /\ buf = 0
  /\ wire = <<>>
  /\ silent = FALSE
  /\ empties = 0
  /\ result = "idle"

(* The bytes of the buffer from offset o on.                               *)
Bytes(o, n) == [i \in 1..n |-> o + i]

Start ==
  /\ result # "busy"
  /\ dir' \in Dirs
  /\ \E n \in Lens : total' = n /\ len' = n
  /\ buf' = 0 /\ wire' = <<>> /\ empties' = 0
  /\ result' = "busy"
  /\ UNCHANGED <<winusb, silent>>

(* No handle, no buffer or no length.                                      *)
StartNothing ==
  /\ result # "busy"
  /\ dir' \in Dirs
  /\ total' = 0 /\ len' = 0
  /\ buf' = 0 /\ wire' = <<>> /\ empties' = 0
  /\ result' = "NULL_PTR"
  /\ UNCHANGED <<winusb, silent>>

(* Both sends split the buffer, both receives ask for all that is left.    *)
Request == IF dir = "send" /\ len > MaxChunk THEN MaxChunk ELSE len

(* A request moved n bytes: buf += bytes.                                  *)
Moved(n) ==
  /\ wire' = wire \o Bytes(buf, n)
  /\ buf' = buf + n

(* Mutant: a request counts in full, whatever it moved.                    *)
CountRequested(n) ==
  /\ len' = len - Request
  /\ result' = IF len' = 0 THEN "SUCCESS" ELSE "busy"

(* len -= bytes, and the loop goes on while any are left.                  *)
CountMoved(n) ==
  /\ len' = len - n
  /\ result' = IF len' = 0 THEN "SUCCESS" ELSE "busy"

(* The loops of libusb, in both directions, and the send loop of WinUSB,   *)
(* which takes an empty request for an error.                              *)
LoopStep ==
  /\ result = "busy" /\ ~silent
  /\ ~(winusb /\ dir = "recv")
  /\ \E n \in 0..Request :
       /\ n = 0 => ~winusb /\ empties < MaxEmpties
       /\ Moved(n)
       /\ CountMoved(n)
       /\ empties' = IF n = 0 THEN empties + 1 ELSE 0
  /\ UNCHANGED <<winusb, dir, total, silent>>

(* The receive of WinUSB is one request, and any byte makes it a success.  *)
WinusbReceive ==
  /\ result = "busy" /\ ~silent
  /\ winusb /\ dir = "recv"
  /\ \E n \in 1..Request :
       /\ Moved(n)
       /\ len' = len - n
  /\ result' = "SUCCESS"
  /\ UNCHANGED <<winusb, dir, total, silent, empties>>

(* Mutant: a request that timed out is asked again.                        *)
NoTimeout == IF silent THEN {} ELSE {"USB_TRANSFER"}

(* The codes of a failed request: libusb gives each request a timeout of   *)
(* DEFAULT_USB_TIMEOUT, DeviceIoControl waits for the device.              *)
ErrorOf ==
  CASE ~winusb         -> Errors
    [] winusb /\ silent -> {}
    [] OTHER           -> {"USB_TRANSFER"}

(* A failed request; bytes it moved are not accounted for.                 *)
RequestFails ==
  /\ result = "busy"
  /\ \E n \in 0..Request : wire' = wire \o Bytes(buf, n)
  /\ result' \in ErrorOf
  /\ UNCHANGED <<winusb, dir, total, len, buf, silent, empties>>

SystemRequest == LoopStep \/ WinusbReceive \/ RequestFails

(* The device stops answering, or answers again.                           *)
DeviceFalters ==
  /\ Falters
  /\ silent' = ~silent
  /\ UNCHANGED <<winusb, dir, total, len, buf, wire, empties, result>>

Next == Start \/ StartNothing \/ SystemRequest \/ DeviceFalters

Spec == Init /\ [][Next]_vars

(* The system completes a request that can complete; MaxEmpties bounds the *)
(* requests in a row that complete without moving a byte, which the libusb *)
(* loops would ask again for ever.                                         *)
FairSpec == Spec /\ WF_vars(SystemRequest)

----------------------------------------------------------------------------
(* What the callers of both sends and of the libusb receive rely on; the   *)
(* receive of WinUSB ends with the first bytes that come.                  *)
Exact == ~winusb \/ dir = "send"

(* A success moved every byte of the caller's buffer, once and in order,   *)
(* however the requests were cut; of a WinUSB receive it moved something.  *)
(* The callers read all of a buffer, for they are not told a count.        *)
SuccessMovedAll ==
  result = "SUCCESS" => IF Exact THEN wire = Bytes(0, total) ELSE wire # <<>>

(* Whatever happens, what moved is a beginning of the buffer: a failed     *)
(* transfer has not skipped or repeated bytes.                             *)
MovedInOrder == \E n \in 0..total : wire = Bytes(0, n)

(* How much of the buffer moved in order; -1 if anything is out of place.  *)
Progress(w) == IF w = Bytes(0, Len(w)) THEN Len(w) ELSE -1

(* Both, step by step: the loops implement a pipe of bytes.                *)
Pipe == INSTANCE BytePipe WITH
          want <- total, exact <- Exact, got <- Progress(wire)
PipeSpec == Pipe!Spec

(* Every libusb transfer returns, also when the device falls silent in the *)
(* middle of it.  WinUSB waits without a timeout.                          *)
Returns == result = "busy" /\ ~winusb ~> result # "busy"

(* efex-fel.h: the length of sunxi_efex_fel_read is "the number of bytes   *)
(* to read from the memory".  WinUSB does not keep this.                   *)
ReceivedAll == result = "SUCCESS" /\ dir = "recv" => wire = Bytes(0, total)
=============================================================================
