------------------------------ MODULE UsbScan ------------------------------
(***************************************************************************)
(* Finding devices: the enumerations of both backends, and opening one of  *)
(* the devices they reported, while devices come and go.                   *)
(*                                                                         *)
(* An enumeration works on a list the system made at the start of the call *)
(* and walks it twice: the first pass counts the matching devices, the     *)
(* second fills an array of that size.  A call is one step; the failures   *)
(* it meets are chosen at its start.  Devices are plugged and unplugged    *)
(* between calls.  The lists of libusb and of the Windows setup interface, *)
(* and their failures, are external.                                       *)
(***************************************************************************)
EXTENDS Integers, Sequences, FiniteSets, SequencesExt

CONSTANTS
  Backends,    \* the backends in use: TRUE for WinUSB, FALSE for libusb
  Devices,     \* records: id, bus, port (0 if the system cannot tell) and sunxi
  Calls,       \* the calls the application makes
  Faults,      \* what may fail: "init", "list", "read", "reread", "memory"
  PortValues,  \* 2^8: the port of an entry is a uint8_t
  MaxChanges   \* bound: devices plugged or unplugged

AllCalls == {"scan_devices", "snapshot", "open_first", "open_at", "open_path"}

ASSUME ScanAssumption == /\ Backends \subseteq BOOLEAN /\ Calls \subseteq AllCalls
                         /\ PortValues \in Nat \ {0} /\ MaxChanges \in Nat
                         /\ Faults \subseteq {"init", "list", "read", "reread", "memory"}
(* The numbers of a device are a uint8_t or less; ids stand for devices.   *)
ASSUME DevicesAssumption ==
  /\ Devices \subseteq [id : Nat, bus : Nat, port : Nat, sunxi : BOOLEAN]
  /\ \A d, e \in Devices : d.id = e.id => d = e

VARIABLES
  winusb,   \* which backend it is, the same throughout
  bus,      \* the devices present, in the order the system lists them
  changes,  \* bound
  answer,   \* the entries of the last successful enumeration
  listed,   \* ghost: the bus it was made from
  last      \* the last call: its result, what it opened, what it kept
scan_vars == <<winusb, bus, changes, answer, listed, last>>

Codes == {"SUCCESS", "MEMORY", "USB_INIT", "USB_OPEN", "USB_WRONG_DRIVER",
          "USB_DEVICE_NOT_FOUND", "crash"}
Allocations == {"context", "list", "path"}
None == [id |-> 0, bus |-> 0, port |-> 0, sunxi |-> FALSE]   \* no device

Entry == [dev : Devices \cup {None}, bus : Nat, port : Nat, path : Seq(Nat)]
(* A place the second pass did not reach: malloc leaves it unset in the    *)
(* array of scan_devices, memset clears it in a snapshot.                  *)
Unwritten == [dev |-> None, bus |-> 0, port |-> 0, path |-> <<>>]

Outcome(code, entries, dev, kept) ==
  [code |-> code, entries |-> entries, dev |-> dev, kept |-> kept]
Fails(code) == Outcome(code, <<>>, None, {})
Opens(dev) == Outcome("SUCCESS", <<>>, dev, {})

ScanTypeOK ==
  /\ winusb \in BOOLEAN
  /\ bus \in Seq(Devices)
  /\ changes \in 0..MaxChanges
  /\ \A k \in DOMAIN answer : answer[k] \in Entry
  /\ listed \in Seq(Devices)
  /\ last.code \in Codes /\ last.dev \in Devices \cup {None} /\ last.kept \subseteq Allocations

ScanInit ==
  /\ winusb \in Backends
  /\ bus = <<>>
  /\ changes = 0
  /\ answer = <<>>
  /\ listed = <<>>
  /\ last = Fails("SUCCESS")

(* The list positions whose descriptor or path cannot be read, or whose    *)
(* path cannot be lowered for want of memory (match_vid_pid).              *)
Unreadable == IF Faults \cap {"read", "reread"} = {} THEN {{}} ELSE SUBSET (DOMAIN bus)

(* Positions in list order: the i-th is the one with i positions up to it. *)
InOrder(positions) ==
  [i \in 1..Cardinality(positions) |->
     CHOOSE k \in positions : Cardinality({j \in positions : j <= k}) = i]

(* The positions of matching devices that can be read.                     *)
Found(bad) == {k \in DOMAIN bus : bus[k].sunxi} \ bad
Seen(bad) == InOrder(Found(bad))

(* Mutant: the port of the entry is its place in the result.               *)
EntryPortFromPlace(call, k, place) ==
  IF winusb /\ call = "scan_devices" THEN place % PortValues ELSE bus[k].port

(* The port number; scan_devices on Windows has the list position instead, *)
(* counted from 1.                                                         *)
EntryPort(call, k, place) ==
  IF winusb /\ call = "scan_devices" THEN k % PortValues ELSE bus[k].port

(* Only the entries of a snapshot have a path: the one of the system on    *)
(* Windows, bus and port with libusb.                                      *)
EntryPath(call, k) ==
  IF call = "scan_devices" THEN <<>>
  ELSE IF winusb THEN <<bus[k].id>> ELSE <<bus[k].bus, bus[k].port>>

EntryOf(call, k, place) ==
  [dev |-> bus[k], bus |-> IF winusb /\ call = "scan_devices" THEN 0 ELSE bus[k].bus,
   port |-> EntryPort(call, k, place), path |-> EntryPath(call, k)]

(* Mutant: the second pass gives up at the first device it cannot use.     *)
FilledStops(call, count, again) ==
  [place \in 1..count |->
     IF again # <<>> /\ again[1] = 1 /\ place <= Len(again)
       THEN EntryOf(call, again[place], place) ELSE Unwritten]

(* The array of the second pass: `count' places, filled in list order with *)
(* what the second pass sees.                                              *)
Filled(call, count, again) ==
  [place \in 1..count |->
     IF place <= Len(again) THEN EntryOf(call, again[place], place) ELSE Unwritten]

(* Mutant: an empty result does not exit the libusb context.               *)
NothingFoundKeepsContext(call) ==
  Outcome(IF call = "snapshot" THEN "SUCCESS" ELSE "USB_DEVICE_NOT_FOUND", <<>>, None,
          {"context"})

(* No device is an error for scan_devices and an empty snapshot.           *)
NothingFound(call) ==
  Fails(IF call = "snapshot" THEN "SUCCESS" ELSE "USB_DEVICE_NOT_FOUND")

(* The paths of a Windows snapshot that are lost when the buffer for the   *)
(* detail of position k cannot be allocated in the second pass: only the   *)
(* array is freed.                                                         *)
PathsLost(call, again, k) ==
  IF call = "snapshot" /\ \E j \in DOMAIN again : again[j] < k THEN {"path"} ELSE {}

(* The failures before, between and in the passes; a failed copy of a path *)
(* frees the paths before it on Windows and leaves NULL with libusb.       *)
EnumerationFailures(call, again) ==
  {Fails("USB_INIT") : f \in Faults \cap {"init"}}
  \cup {Fails("USB_DEVICE_NOT_FOUND") : f \in IF winusb THEN {} ELSE Faults \cap {"list"}}
  \cup {Fails("MEMORY") : f \in Faults \cap {"memory"}}
  \cup {Outcome("MEMORY", <<>>, None, PathsLost(call, again, k)) :
          k \in IF winusb /\ "memory" \in Faults THEN DOMAIN bus ELSE {}}

(* The second pass meets the same unreadable positions as the first one,   *)
(* or its own under the fault "reread".                                    *)
EnumerationOutcomes(call) ==
  UNION {
    LET first == Seen(bad[1])
        again == Seen(bad[2])
    IN EnumerationFailures(call, again)
       \cup {IF first = <<>> THEN NothingFound(call)
                             ELSE Outcome("SUCCESS", Filled(call, Len(first), again), None, {})} :
    bad \in {b \in Unreadable \X Unreadable : "reread" \in Faults \/ b[1] = b[2]}}

(***************************************************************************)
(* Opening.  With libusb a scan opens the device itself; with WinUSB it    *)
(* keeps the path that sunxi_usb_init opens.                               *)
(***************************************************************************)

(* Mutant: the error of libusb_open is returned as it is.                  *)
RawOpenErrors == IF "init" \in Faults THEN {"LIBUSB_ERROR_ACCESS"} ELSE {}

(* libusb_open_error_to_efex, for the three classes of libusb errors.      *)
OpenErrors == IF "init" \in Faults THEN {"USB_WRONG_DRIVER", "USB_OPEN", "USB_INIT"} ELSE {}

(* With libusb the result of libusb_init is not looked at: when it fails,  *)
(* the calls after it use a default context that is not there.  That of    *)
(* libusb_get_device_list, negative when it fails, goes into a size_t: the *)
(* loop then reads a list that is not there.                               *)
StartFailures ==
  IF winusb THEN {Fails("USB_INIT") : f \in Faults \cap {"init"}}
            ELSE {Fails("crash") : f \in Faults \cap {"init", "list"}}

TryOpen(dev) ==
  {Opens(dev)} \cup {Fails(code) : code \in IF winusb THEN {} ELSE OpenErrors}

(* Windows: no memory for the detail of a position the call looks at.      *)
DetailFailures(positions) ==
  {Fails("MEMORY") : k \in IF winusb /\ "memory" \in Faults THEN positions ELSE {}}

(* The first matching device.  With libusb an unreadable descriptor before *)
(* it ends the scan, and the list is not freed.                            *)
OpenFirstOutcomes(bad) ==
  LET seen == Seen(bad)
      before == {k \in bad : seen = <<>> \/ k < seen[1]}
  IN StartFailures \cup DetailFailures(DOMAIN bus) \cup
     (CASE ~winusb /\ before # {} ->
             {Outcome("USB_DEVICE_NOT_FOUND", <<>>, None, {"list"})}
        [] OTHER -> IF seen = <<>> THEN {Fails("USB_DEVICE_NOT_FOUND")}
                                   ELSE TryOpen(bus[seen[1]]))

(* scan_device_at(e.bus, e.port) takes the first device there; on Windows  *)
(* the bus is ignored and the port is taken for a list position, which no  *)
(* device has for port 0.  The port of a scan_devices entry is one, that   *)
(* of a snapshot entry is the number of a port.                            *)
IsAt(k, e) ==
  IF winusb THEN k = e.port ELSE bus[k].bus = e.bus /\ bus[k].port = e.port

OpenAtOutcomes(e, bad) ==
  LET there == InOrder({k \in Found(bad) : IsAt(k, e)})
  IN StartFailures \cup DetailFailures({k \in DOMAIN bus : IsAt(k, e)})
     \cup {Fails("USB_DEVICE_NOT_FOUND") : f \in IF winusb THEN Faults \cap {"memory"} ELSE {}}
     \cup (IF there = <<>> THEN {Fails("USB_DEVICE_NOT_FOUND")} ELSE TryOpen(bus[there[1]]))

(***************************************************************************)
(* The application and the bus.                                            *)
(***************************************************************************)
Enumerate ==
  /\ \E call \in Calls \cap {"scan_devices", "snapshot"} :
       \E out \in EnumerationOutcomes(call) :
         /\ last' = out
         /\ answer' = IF out.code = "SUCCESS" THEN out.entries ELSE <<>>
         /\ listed' = bus
  /\ UNCHANGED <<winusb, bus, changes>>

OpenFirst ==
  /\ "open_first" \in Calls
  /\ \E bad \in Unreadable : \E out \in OpenFirstOutcomes(bad) : last' = out
  /\ UNCHANGED <<winusb, bus, changes, answer, listed>>

(* Opens an entry of the last enumeration, of a scan or of a snapshot, by  *)
(* its bus and port; `entries' of the outcome holds the entry it was asked *)
(* for.                                                                    *)
OpenAt ==
  /\ "open_at" \in Calls
  /\ \E place \in DOMAIN answer : \E bad \in Unreadable :
       \E out \in OpenAtOutcomes(answer[place], bad) :
         last' = [out EXCEPT !.entries = <<answer[place]>>]
  /\ UNCHANGED <<winusb, bus, changes, answer, listed>>

(* The device that has the path e of the Windows snapshot opens by it.     *)
OpenPathOutcomes(e) ==
  {Opens(bus[k]) : k \in {k \in DOMAIN bus : <<bus[k].id>> = e.path}} \cup {Fails("USB_OPEN")}

(* Context::set_device_path and sunxi_usb_init.                            *)
OpenPath ==
  /\ winusb /\ "open_path" \in Calls
  /\ \E place \in DOMAIN answer :
       /\ answer[place].path # <<>>
       /\ \E out \in OpenPathOutcomes(answer[place]) :
            last' = [out EXCEPT !.entries = <<answer[place]>>]
  /\ UNCHANGED <<winusb, bus, changes, answer, listed>>

Plug ==
  /\ changes < MaxChanges
  /\ \E d \in Devices \ Range(bus) : \E k \in 1..(Len(bus) + 1) : bus' = InsertAt(bus, k, d)
  /\ changes' = changes + 1
  /\ UNCHANGED <<winusb, answer, listed, last>>

Unplug ==
  /\ changes < MaxChanges
  /\ \E k \in DOMAIN bus : bus' = RemoveAt(bus, k)
  /\ changes' = changes + 1
  /\ UNCHANGED <<winusb, answer, listed, last>>

ScanNext == Enumerate \/ OpenFirst \/ OpenAt \/ OpenPath \/ Plug \/ Unplug

ScanSpec == ScanInit /\ [][ScanNext]_scan_vars

----------------------------------------------------------------------------
(* A successful enumeration reports a matching device that was present at  *)
(* every place of its array, none twice and in list order: the count of    *)
(* the first pass fits what the second pass wrote.                         *)
ReportsPresent ==
  [][last' # last /\ answer' # answer =>
       LET devs == [k \in DOMAIN answer' |-> answer'[k].dev]
           places == [k \in DOMAIN devs |-> {p \in DOMAIN bus : bus[p] = devs[k]}]
       IN /\ \A k \in DOMAIN devs : devs[k].sunxi /\ devs[k] \in Range(bus)
          /\ \A j, k \in DOMAIN devs : j < k =>
               \A p \in places[j], q \in places[k] : p < q]_scan_vars

(* A call that succeeds has released what it allocated and did not hand to *)
(* its caller, and no enumeration keeps its libusb context, however it     *)
(* ends; what two failures keep, see ExitReleases and PathsFreed.          *)
NothingKept ==
  /\ last.code = "SUCCESS" => last.kept = {}
  /\ "context" \notin last.kept

(* Where a device that was opened from entry e by its bus and port stands: *)
(* with libusb at the bus and port of the entry; on Windows at the list    *)
(* position that the port of the entry is taken for, which is the place of *)
(* the entry's device if e is of a scan, the bus has not changed since and *)
(* its positions fit a port.  A snapshot entry has the port of its device  *)
(* there, and opens whichever matching device stands at that position.     *)
StandsWhere(d, e) ==
  IF winusb
    THEN /\ bus[e.port] = d
         /\ e.path = <<>> /\ listed = bus /\ Len(bus) < PortValues => d = e.dev
    ELSE d.bus = e.dev.bus /\ d.port = e.dev.port

(* What is opened from an entry is a matching device that is present, and  *)
(* by bus and port it is the one StandsWhere says, also when devices that  *)
(* are not reported, could not be read or came in between stand before it; *)
(* by the path of a Windows snapshot it is the device of the entry.  That  *)
(* the device by bus and port is the wanted one is more than the code can  *)
(* do, see PortOpensChosen.                                                *)
OpenedEntry == last.code = "SUCCESS" /\ last.dev # None /\ last.entries # <<>>
OpenedIsChosen ==
  [][last' # last /\ OpenedEntry' =>
       LET e == last'.entries[1]
           d == last'.dev
       IN /\ d.sunxi /\ d \in Range(bus)
          /\ OpenAt => StandsWhere(d, e)
          /\ OpenPath => d = e.dev]_scan_vars

(***************************************************************************)
(* What the headers promise and the code does not keep.                    *)
(***************************************************************************)
(* usb_layer.h: "Pointer to receive number of devices found": that many    *)
(* entries were written.                                                   *)
EntriesWritten == \A k \in DOMAIN answer : answer[k] # Unwritten

(* usb_layer.h: "USB port number": an entry of the scan opens its device.  *)
PortOpensChosen == OpenedEntry => last.dev = last.entries[1].dev

(* usb_layer.h: "Stable backend device path", to tell devices apart.       *)
PathsDistinct ==
  \A j, k \in DOMAIN answer :
    answer[j].path # <<>> /\ answer[j].path = answer[k].path => answer[j].dev = answer[k].dev

(* usb_layer.h: the path, "caller must free through snapshot free API",    *)
(* which a failed snapshot leaves no way to do.                            *)
PathsFreed == "path" \notin last.kept

(* usb_layer.h: "EFEX_ERR_SUCCESS on success, or an error code on failure".*)
ListFailureReported == last.code # "crash"
=============================================================================
