----------------------------- MODULE FlashFlow ------------------------------
(***************************************************************************)
(* The flashing flow of test/fes_flash.c: bring a device in FEL mode to    *)
(* FES mode by loading two programs, wait until it is back on the bus,     *)
(* then erase it, announce an image, send it and ask for its verification. *)
(*                                                                         *)
(* Every library call is a step that may fail.  A device that leaves the   *)
(* bus and returns is a new connection; a handle serves the connection it  *)
(* was opened on only.  A call that failed may leave an answer on its way, *)
(* which the next call on the connection takes for its own, also on a      *)
(* handle opened anew: FES calls compare nothing.  EfexSession has the     *)
(* inside of the calls, and UsbContext what the scans allocate.            *)
(*                                                                         *)
(* The part of main behind full_image is not reached: full_image is 1 and  *)
(* its branch returns.                                                     *)
(***************************************************************************)
EXTENDS Integers, Sequences

CONSTANTS
  Firmwares,  \* what a device may come back with
  MaxBoots,   \* bound: connections of the device
  MaxFaults   \* bound: calls that fail without the device's doing

ASSUME FlowAssumption == /\ MaxBoots \in Nat \ {0} /\ MaxFaults \in Nat
                         /\ Firmwares \subseteq {"FEL", "SRV", "UPDATE_COOL"}

VARIABLES
  place,   \* where main, or init_device_fes, is
  fw,      \* the firmware that runs, or "none" off the bus
  conn,    \* the connection of the device, counted
  hdl,     \* the connection ctx->hdl was opened on; 0 is NULL
  mode,    \* ctx->resp.mode
  late,    \* answers of failed calls may still come on the connection
  carried, \* ghost: the FES commands the device carried out, with connections
  ret,     \* what main returned: "OK" or "error"
  faults   \* bound
flow_vars == <<place, fw, conn, hdl, mode, late, carried, ret, faults>>

FelSteps == <<"clear_dram", "write_fes1", "exec_fes1", "read_dram", "write_uboot", "exec_uboot">>
FelPcs == {FelSteps[i] : i \in DOMAIN FelSteps}
WaitPcs == {"exit", "wait", "reinit", "reefex", "retry"}
FesSteps == <<"erase", "size", "image", "verify">>
FesPcs == {FesSteps[i] : i \in DOMAIN FesSteps}
Modes == {"none", "FEL", "SRV", "UPDATE_COOL"}

FlowTypeOK ==
  /\ place \in {"scan", "usb_init", "efex_init", "connected", "done"}
            \cup FelPcs \cup WaitPcs \cup FesPcs
  /\ fw \in Modes /\ mode \in Modes
  /\ conn \in 0..MaxBoots /\ hdl \in 0..conn /\ late \in BOOLEAN
  /\ carried \in Seq(FesPcs \X (1..MaxBoots))
  /\ ret \in {"none", "OK", "error"}
  /\ faults \in 0..MaxFaults

FlowInit ==
  /\ place = "scan"
  /\ fw \in Firmwares /\ conn = 1
  /\ hdl = 0 /\ mode = "none" /\ late = FALSE
  /\ carried = <<>>
  /\ ret = "none"
  /\ faults = 0

Fault == faults < MaxFaults /\ faults' = faults + 1
NoFault == UNCHANGED faults
Device == <<fw, conn>>

(* A call that fails may leave its answer on the way, if the device is     *)
(* reached and takes what was sent.  Of the inits and FES calls: after a   *)
(* failed FEL call, or first init, no command is sent on the connection.   *)
MayLeaveAnswer(reached) == late' = late \/ (reached /\ late' = TRUE)

(* The device behind the handle is still there.                            *)
Alive == hdl # 0 /\ hdl = conn /\ fw # "none"

Return(code) == place' = "done" /\ ret' = code
GoOn(label) == place' = label /\ UNCHANGED ret

(* main: any failure of the first scan and inits ends the program.         *)
ScanDevice ==
  /\ place = "scan"
  /\ \/ fw # "none" /\ hdl' = conn /\ GoOn("usb_init") /\ NoFault
     \/ fw = "none" /\ Return("error") /\ NoFault /\ UNCHANGED hdl
     \/ Fault /\ Return("error") /\ UNCHANGED hdl
  /\ UNCHANGED <<Device, mode, late, carried>>

OpenDevice ==
  /\ place = "usb_init"
  /\ \/ Alive /\ GoOn("efex_init") /\ NoFault /\ UNCHANGED hdl
     \/ ~Alive /\ Return("error") /\ hdl' = 0 /\ NoFault
     \/ Fault /\ Return("error") /\ hdl' = 0
  /\ UNCHANGED <<Device, mode, late, carried>>

InitEfex ==
  /\ place = "efex_init"
  /\ \/ /\ Alive /\ mode' = fw /\ NoFault /\ UNCHANGED hdl
        /\ GoOn(IF fw = "FEL" THEN FelSteps[1] ELSE "erase")
     \/ ~Alive /\ Return("error") /\ hdl' = 0 /\ NoFault /\ UNCHANGED mode
     \/ Fault /\ Return("error") /\ hdl' = 0 /\ UNCHANGED mode
  /\ UNCHANGED <<Device, late, carried>>

(* init_device_fes returns an error, which main does not look at.  A       *)
(* failure of the second program has closed the device before.             *)
BringUpFails(i) ==
  /\ GoOn("erase")
  /\ hdl' = IF FelSteps[i] \in {"write_uboot", "exec_uboot"} THEN 0 ELSE hdl

(* One FEL command of init_device_fes.  A file that cannot be read ends it *)
(* before the first command of each program, and a DRAM that did not start *)
(* after the read of its flag; the handle is kept then.                    *)
FelStep(i) ==
  /\ place = FelSteps[i]
  /\ \/ /\ Alive /\ fw = "FEL" /\ i < Len(FelSteps)
        /\ GoOn(FelSteps[i + 1]) /\ NoFault /\ UNCHANGED <<Device, hdl>>
     \/ /\ Alive /\ fw = "FEL" /\ i = Len(FelSteps)
        /\ fw' = "none"
        /\ GoOn("exit") /\ NoFault /\ UNCHANGED <<conn, hdl>>
     \/ ~Alive /\ BringUpFails(i) /\ NoFault /\ UNCHANGED Device
     \/ /\ Fault /\ BringUpFails(i)
        /\ \/ UNCHANGED Device
           \/ i = Len(FelSteps) /\ Alive /\ fw = "FEL" /\ fw' = "none" /\ UNCHANGED conn
     \/ /\ FelSteps[i] \in {"clear_dram", "read_dram", "write_uboot"}
        /\ GoOn("erase") /\ NoFault /\ UNCHANGED <<Device, hdl>>
  /\ UNCHANGED <<mode, late, carried>>

FelCommand == \E i \in DOMAIN FelSteps : FelStep(i)

CloseDevice ==
  /\ place = "exit"
  /\ hdl' = 0
  /\ GoOn("wait")
  /\ UNCHANGED <<Device, mode, late, carried, faults>>

(* The first loop: scan until a device is found.                           *)
Wait ==
  /\ place = "wait"
  /\ \/ fw # "none" /\ hdl' = conn /\ GoOn("reinit") /\ NoFault
     \/ fw = "none" /\ GoOn("wait") /\ NoFault /\ UNCHANGED hdl
     \/ Fault /\ GoOn("wait") /\ UNCHANGED hdl
  /\ UNCHANGED <<Device, mode, late, carried>>

(* The second loop: open and init until the mode is SRV.                   *)
Reinit ==
  /\ place = "reinit"
  /\ \/ Alive /\ GoOn("reefex") /\ NoFault
     \/ ~Alive /\ GoOn("retry") /\ NoFault
     \/ Fault /\ GoOn("retry")
  /\ UNCHANGED <<Device, hdl, mode, late, carried>>

(* Mutant: any mode ends the loop.                                         *)
EndsWaitAlways(m) == TRUE

EndsWait(m) == m = "SRV"

(* An init that fails may leave an answer on its way; that one makes the   *)
(* next init fail, which may leave its own again, or is read by it and     *)
(* gone.  The mode is the one of the firmware of this connection also if   *)
(* the init that succeeds read it from a late answer.                      *)
Reefex ==
  /\ place = "reefex"
  /\ \/ /\ Alive /\ mode' = fw /\ NoFault
        /\ GoOn(IF EndsWait(fw) THEN "connected" ELSE "retry")
        /\ late' \in {late, FALSE}
     \/ Alive /\ late /\ GoOn("retry") /\ NoFault /\ late' \in BOOLEAN /\ UNCHANGED mode
     \/ ~Alive /\ GoOn("retry") /\ NoFault /\ UNCHANGED <<mode, late>>
     \/ Fault /\ GoOn("retry") /\ MayLeaveAnswer(Alive) /\ UNCHANGED mode
  /\ UNCHANGED <<Device, hdl, carried>>

(* Mutant: the second loop tries again on the handle it has.               *)
RetrySameHandle ==
  /\ place = "retry"
  /\ GoOn("reinit")
  /\ UNCHANGED <<Device, hdl, mode, late, carried, faults>>

(* Mutant: a scan that finds nothing leaves an invalid handle.             *)
RetryInvalidHandle ==
  /\ place = "retry"
  /\ hdl' = (IF fw = "none" THEN -1 ELSE conn)
  /\ GoOn("reinit")
  /\ UNCHANGED <<Device, mode, late, carried, faults>>

(* sunxi_usb_exit and a scan whose result is not looked at: the loop goes  *)
(* on without a handle if it failed.                                       *)
Retry ==
  /\ place = "retry"
  /\ \/ hdl' = (IF fw = "none" THEN 0 ELSE conn) /\ NoFault
     \/ hdl' = 0 /\ Fault
  /\ GoOn("reinit")
  /\ UNCHANGED <<Device, mode, late, carried>>

Connected ==
  /\ place = "connected"
  /\ GoOn("erase")
  /\ UNCHANGED <<Device, hdl, mode, late, carried, faults>>

(* Mutant: a failed image is not noticed.                                  *)
FesFailsIgnored(i) == GoOn(IF i < Len(FesSteps) THEN FesSteps[i + 1] ELSE "done")

(* The result of the erase is not looked at; the others end main.          *)
FesFails(i) == IF FesSteps[i] = "erase" THEN GoOn("size") ELSE Return("error")

FesDone(i) == IF i < Len(FesSteps) THEN GoOn(FesSteps[i + 1]) ELSE Return("OK")

(* Mutant: the verification takes a late answer as well.                   *)
TakesAnyAnswer(i) == TRUE

(* A FES call reads 13 bytes that start with AWUS as its answer, whichever *)
(* call they belong to.  The verification reads 12 bytes of data first, so *)
(* that a late answer overflows its buffer, or cuts it in pieces.          *)
TakesAnswer(i) == FesSteps[i] # "verify"

(* The FES commands of main and download_raw_image.  The library refuses   *)
(* them unless the stored mode is SRV; a failed one may have been carried  *)
(* out.  So may one that took a late answer for its own, and if that was a *)
(* refusal, or never came, it fails; its own answer is then the late one.  *)
(* Whatever the data of the answer to `verify' says, the call counts.      *)
FesStep(i) ==
  LET reached == mode = "SRV" /\ Alive /\ fw = "SRV"
      done == carried' = Append(carried, <<FesSteps[i], conn>>)
      perhaps == UNCHANGED carried \/ (reached /\ done)
  IN /\ place = FesSteps[i]
     /\ \/ reached /\ ~late /\ done /\ FesDone(i) /\ NoFault /\ UNCHANGED late
        \/ reached /\ late /\ TakesAnswer(i) /\ perhaps /\ FesDone(i) /\ NoFault /\ UNCHANGED late
        \/ (reached => late) /\ perhaps /\ FesFails(i) /\ NoFault /\ UNCHANGED late
        \/ Fault /\ perhaps /\ FesFails(i) /\ MayLeaveAnswer(reached)
        \/ /\ FesSteps[i] = "size"   \* the image file cannot be read
           /\ Return("error") /\ NoFault /\ UNCHANGED <<late, carried>>
     /\ UNCHANGED <<Device, hdl, mode>>

FesCommand == \E i \in DOMAIN FesSteps : FesStep(i)

(* The device leaves the bus for its own reasons, and comes back.          *)
DeviceLeaves ==
  /\ fw # "none" /\ conn < MaxBoots /\ place # "done"
  /\ fw' = "none"
  /\ UNCHANGED <<place, conn, hdl, mode, late, carried, ret, faults>>

DeviceBoots ==
  /\ fw = "none" /\ conn < MaxBoots /\ place # "done"
  /\ fw' \in Firmwares
  /\ conn' = conn + 1 /\ late' = FALSE
  /\ UNCHANGED <<place, hdl, mode, carried, ret, faults>>

Host ==
  \/ ScanDevice \/ OpenDevice \/ InitEfex \/ FelCommand \/ CloseDevice \/ Wait
  \/ Reinit \/ Reefex \/ Retry \/ Connected \/ FesCommand

FlowNext == Host \/ DeviceLeaves \/ DeviceBoots

FlowSpec == FlowInit /\ [][FlowNext]_flow_vars

(* The program runs on, and a device that left boots again while it may.   *)
FlowFairSpec == FlowSpec /\ WF_flow_vars(Host) /\ WF_flow_vars(DeviceBoots)

----------------------------------------------------------------------------
(* When main returns 0, the device carried out the size and then the image *)
(* in one connection: no restart of its firmware came between them, and    *)
(* nothing else was carried out in that connection afterwards but the      *)
(* verification.  A late answer of the erase, or of a failed init, that    *)
(* makes the size or the image count although the device has not done      *)
(* them shifts every answer after it, and the verification fails on that.  *)
ExitZeroMeansImage ==
  place = "done" /\ ret = "OK" =>
    LET n == Len(carried)
    IN /\ n >= 3
       /\ \A i \in 1..3 : carried[n - 3 + i] = <<FesSteps[i + 1], carried[n][2]>>

(* When init_device_fes says that the device is back in FES mode, it is,   *)
(* unless it has left again since; the mode of an earlier connection is    *)
(* not taken for that of the present one.                                  *)
BackInFesMode == place = "connected" /\ hdl = conn => fw \in {"SRV", "none"} /\ mode = "SRV"

(* Once the device stays in FES mode and no answer is on its way, the wait *)
(* for it ends, however often scans, opens and inits have failed before    *)
(* and whatever the loop does with a handle of an earlier connection.  An  *)
(* init that left an answer behind may make all later ones of the          *)
(* connection fail, each by the answer the one before it did not read.     *)
WaitEnds == <>[](fw = "SRV" /\ ~late) => [](place \in WaitPcs => <>(place \notin WaitPcs))
=============================================================================
