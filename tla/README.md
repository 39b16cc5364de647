# A formal model of libefex

libefex talks to Allwinner ("sunxi") chips over USB while they are in FEL mode
(the boot ROM) or in FES/SRV mode (a U-Boot that acts as a flashing server).
This directory holds TLA+ modules that model the library, TLC configurations
that check them on small instances, and proofs that TLAPS checks for every
value of the constants.

## 1. Inventory

| Part | Source | State it keeps | Operations |
|---|---|---|---|
| USB framing | `src/src/efex-usb.c` | none of its own; the two bulk pipes | `sunxi_usb_write`, `sunxi_usb_read`, `sunxi_usb_fes_xfer` |
| EFEX common | `src/src/efex-common.c` | `ctx->resp` (the device's answer to VERIFY, with its mode) | `sunxi_efex_init`, request, status |
| FEL | `src/src/efex-fel.c` | locals of a chunk loop | exec, read, write and their callback forms |
| FES | `src/src/efex-fes.c` | locals of a chunk loop | queries, flash on/off/switch, down, up, storage reads, verify, tool mode |
| libusb transport | `src/src/usb/usb_layer_libusb.c` | `ctx->hdl`, `ctx->usb_context`, endpoints | bulk send/receive, scans, snapshot, init, exit |
| WinUSB transport | `src/src/usb/usb_layer_winusb.c` | `ctx->hdl`, `ctx->dev_name` | the same |
| dispatch | `src/src/usb/usb_layer.c` | `current_backend`, global | choice of the backend |
| payloads | `src/src/efex-payloads.c`, `src/src/arch/*` | `current_payload`, global; the scratch area in device memory | `readl`, `writel` by injected code |
| flashing flow | `src/test/fes_flash.c` | the context across a re-enumeration | FEL bring-up, reconnect loops, erase, download, verify |
| C command line | `src/app/efex-cli.c` | chunk loops, file, buffer, exit code | hexdump, dump, read, write, read32, write32, exec, version |
| Rust command line | `src/rust/efex-cli/src/main.rs` | the same | the same |
| Rust binding | `src/rust/libefex/src/lib.rs` | `Context`, device path | wrappers, and two chunk loops of its own |

Interaction: an application scans, opens a context, calls FEL or FES functions on
it, and exits it. FEL and FES call the framing, which does blocking bulk transfers
on the open handle through the backend chosen by a global. There are no threads in
the library. The other party is the device: it runs concurrently, answers when it
likes, may refuse a command, may leave the bus and come back with other firmware.
What ties an answer to a question is only its place in the pipe: the `tag` fields are
always 0 and never compared. What ties a context to a device is a handle, a path or a
pair of bus and port that was true when the list was made. What ties a handle to its
backend is nothing at all.

What is hard, and what makes each part correct:

* **Session** (framing, common, FEL, FES, device): lost or late answers, refusals in
  the middle of a three-leg command, resets, NULL result pointers found too late, a
  mode that outlives the firmware it describes. Correct means: host and device stand
  at the same place of the same command; SUCCESS means that the device has carried out
  *this* command; the mode that the guards test is the mode of the firmware behind the
  handle; every call returns.
* **Transfers** (three FES loops, four FEL loops): truncation, the wrap of the 32-bit
  address, byte against sector addresses, the finish tag, callbacks. Correct means: a
  gapless ranged transfer; success means everything.
* **Byte loops** of the backends: partial, empty and failed requests, a silent device.
  Correct means: what moved is a beginning of the buffer; success means all of it.
* **Contexts** (both backends and the dispatch): pointers whose type depends on a
  global, scans over open contexts, steps that fail half way, a claim that excludes
  others. Correct means: every call to the system gets a live object of its own kind,
  nothing is lost, the interface has one holder.
* **Scanning**: two passes over a list, devices that come and go between a list and an
  open, identities that are not unique. Correct means: reported devices were present,
  and opening an entry opens a matching device that stands where the entry says.
* **Payloads**: four commands over scratch memory that earlier, failed calls have
  used, one global program table for all devices. Correct means: the word is the
  word, nothing else changes, and what hangs a device is never a leftover.
* **Command lines and flashing flow**: every step may fail; chunk loops over a wrapping
  address; ignored results; waiting for a device. Correct means: the exit code tells
  what was moved, what is not released is known, waiting ends.

`PROJECT.json` lists every hazard with its line and the properties that cover it.

## 2. Modules

| Module | Models | Role |
|---|---|---|
| `EfexSession` | framing, common, FEL and FES commands against a device | core |
| `RangeTransfer` | what a ranged transfer promises | abstract specification |
| `FesTransfer` | `sunxi_efex_fes_up_down` and the two Rust loops | implements `RangeTransfer` |
| `FelTransfer` | the loop of `fel_read`, `fel_write` and the `_cb` forms | implements `RangeTransfer` |
| `BytePipe` | what moving a buffer through a bulk pipe promises | abstract specification |
| `BulkTransfer` | the four byte loops of the backends | implements `BytePipe` |
| `InterfaceLock` | what opening and exiting contexts promises | abstract specification |
| `UsbContext` | contexts, system objects, backends and the dispatch | implements `InterfaceLock` |
| `UsbScan` | enumerations and opening what they reported | |
| `Payloads` | `readl` and `writel` against devices that run code | |
| `Cli` | one run of either command line | |
| `FlashFlow` | one run of `fes_flash` against a device that restarts | |
| `MC*` | operation sets, requests, devices and symmetry for TLC | instances |
| `WordArithmetic` | lemmas on `\div` and `%` | library of the proofs |
| `FesTransferProofs`, `FelTransferProofs` | theorems about the chunk loops | proofs |
| `EfexSessionProofs` | all safety of the session | proofs |
| `BulkTransferProofs` | what the byte loops move | proofs |
| `UsbLayerProofs` | everything `UsbContext` and `UsbScan` are checked for | proofs |
| `PayloadsProofs` | the safety of `Payloads` | proofs |
| `ProgramProofs` | the safety of `Cli` and `FlashFlow` | proofs |

How they fit: `FlashFlow` and `Cli` take a library call for a step that succeeds or
fails; `FesTransfer` and `FelTransfer` have the chunks of such a call; `EfexSession` has
the commands of a chunk, packet by packet; `BulkTransfer` has the bytes of a packet.
`UsbContext` and `UsbScan` look at the same scans from two sides: which objects they
make, and which device they find. `map` in `PROJECT.json` gives the lines behind
every definition.

### EfexSession

A call is a sequence of *legs*; `Legs` gives them. A leg is one
`sunxi_usb_write`, `sunxi_usb_read` or `sunxi_usb_fes_xfer`: header, optional
data, 13-byte response. `init`, `fel_read` and `fel_write` have three, `fel_exec`
two, every FES command one.

| Variables | Code |
|---|---|
| `call`, `leg`, `stage`, `got` | the call in progress, which framing function it is in, which bulk transfer comes next, bytes received of it |
| `mode` | `ctx->resp.mode` |
| `ret` | what the last call returned (ghost: with the call and whether it consumed an answer of another call) |
| `outq`, `inq` | the two bulk pipes |
| `attached` | the open handle still has a device behind it |
| `devMode`, `devCall`, `devLeg`, `devOpen`, `pending` | the firmware: mode, FEL command in progress, its next leg, header whose data it collects, answers not yet sent |
| `completed` | ghost: the commands the firmware has carried out and their status |
| `tainted`, `inited`, `foreign` | ghosts: a transfer failed, and no call has since begun with an answer of its own; init succeeded since the open; this call took an answer that is not its own |
| `ncalls`, `faults` | bounds |

| Host action | Code |
|---|---|
| `Invoke` | entry of a library call with its mode guard |
| `SendRequest`, `SendData` | `sunxi_send_usb_request` or the FES header; the data of a write |
| `NullBuffer` | the NULL test of `sunxi_usb_fes_xfer`, after the header |
| `RecvPart`, `RecvData`, `RecvOverflow` | the receive loop of libusb: a short packet, the last packet, a packet too large |
| `BadMagic`, `Refused`, `LegDone`, `CallDone` | `sunxi_read_usb_response` and its callers |
| `SendFails`, `RecvFails` | an error or timeout of a transfer; a sent packet may or may not have arrived, a received one is lost or comes later |
| `Reopen` | `sunxi_usb_exit`, scan, `sunxi_usb_init` |

The C functions do several bulk transfers in a row; the device can act between
any two of them, so each transfer is an action and everything else the code does
up to the next transfer is part of that action.

The **device** is not in this repository. It is modelled from what the host code
relies on: it serves headers in order, buffers one announced data phase, answers
a read with data and response, and ends a FEL command with the status read. It is
forgiving: any header is accepted as the start of something new, a refusal
abandons the command in progress, bytes that fit nothing are dropped, firmware in
FEL mode ignores FES headers. A less forgiving device would only have fewer
behaviours after a failure. Items in the pipes are packets, as libusb delivers
them: a receive never takes bytes of two packets at once unless it needs both.

### FesTransfer and FelTransfer

State: the arguments (`req`), the loop's locals (`remain`, `addr`, `off`, `flags`;
`len`, `addr`, `off`), the transfer headers issued so far, the result. `Chunk` is
one iteration whose transfer succeeds, `ChunkFails` one whose transfer fails (why
it failed is the session's business), `Enter` the guards, `Finish` the end.
`FesTransfer` runs all five entry points: `c` (the C functions), `batch`
(`fes_down_batch`), `progress` (`fes_down_with_progress`, `fes_up_with_progress`),
`addressed` (`fes_up_with_progress_addressed`) and `storage`
(`fes_storage_up_with_progress`). Addresses are taken modulo `Word`, which stands
for 2^32; tags have their real values, so that the finish bit and the type mask
work on the real numbers.

### BulkTransfer

One request to the system is one step (`LoopStep`, `WinusbReceive`, `RequestFails`). A
successful request moves any number of bytes up to what was asked, none included; a failed
one may have moved some that nobody counts. `len` and `buf` are the locals of the loops,
`wire` records which byte of the buffer moved in which order. The libusb loops, both ways,
and the WinUSB send are one action: they differ in what they make of an empty request and in
their error codes (`ErrorOf`). The WinUSB receive is not a loop. `DeviceFalters` makes the
device silent or lets it answer again.

### UsbContext

| Variables | Code |
|---|---|
| `current_backend` | the static of `usb_layer.c` |
| `ctx` | `hdl`, `usb_context` and `dev_name` of every context |
| `heap` | the system's objects behind these pointers: kind, and the libusb context of a libusb object |
| `claim` | the handle that has claimed interface 0 |
| `phase`, `reopened` | ghosts: how far the application opened each context; whether it ever scanned or opened one again without an exit |

| Action | Code |
|---|---|
| `LibusbScan`, `LibusbScanAt` | a new libusb context in every case, then nothing found, a handle, or (scan only) a list kept at an unreadable descriptor |
| `LibusbInit` | the claim, which may fail, and the configuration, which may fail after it |
| `LibusbExit` | release, close, exit |
| `WinusbScan`, `WinusbInit`, `WinusbExit` | the path; the handle or `INVALID_HANDLE_VALUE`; their release |
| `SetDevicePath` | `Context::set_device_path` of the Rust binding |
| `SetUsbBackend` | `sunxi_efex_set_usb_backend`; `SwitchWhen` says in which states the application calls it |

The application may call anything at any time: scan twice, open twice, exit without an open.
Freed places are used again, so that a pointer that dangles would meet a new object.

### UsbScan

A call is one step, because the list it works on is a snapshot of the system's; devices come
and go between calls, at any place of the list. `Found` are the positions a pass can use, `Seen`
the same in list order (`InOrder` counts the positions up to each), `Filled` the array
that the second pass fills, `EntryOf` what an entry says of its device: on Windows
`scan_devices` has no bus and the list position for a port, a snapshot the number of the port.
`OpenAt` opens an entry of either by its bus and port, `OpenPath` one of a Windows snapshot by
its path; `OpenAtOutcomes`, `OpenFirstOutcomes` and `OpenPathOutcomes` choose by what the entry says.
On Windows `sunxi_scan_usb_device_at` takes any port for a list position (`IsAt`), also the port
number of a snapshot entry: `StandsWhere` says what is opened then. Every allocation,
initialization and descriptor read may fail; an outcome names the code, the device and what
was kept. A libusb scan whose `libusb_init` or list fails goes on with neither ("crash").
`None` is no device, `Unwritten` a place of the array that nobody filled.

### Payloads

The device memory is a scratch area of words, each an instruction of some program or data, and
a few other words. `WriteCode`, `WriteParams`, `Execute` and `Fetch` are the FEL commands; each may
fail, with no, part or all of its effect. `PayloadWords` and `ParamsAt` are where the C code puts the
parameters; `AddrWord` and `ValueWord` are where the instructions look for them, computed from
their pc-relative offsets. The device runs a complete program of its own architecture; anything
else hangs it (`RunsAnything`), and commands to a device that hangs time out (`NoAnswer`).
`PayloadsInit` changes the global at any time, also during a call. What else other contexts of the
process do cannot touch a device that is not theirs; so one context with every change of the
global is as good as several.

### Cli and FlashFlow

`Cli` has an action for each stage of `main` (`Scan`, `UsbInit`, `EfexInit`, the commands, `Cleanup`), and
the loops of read, dump, hexdump and write as `Loop`, `ReadChunk`, `SaveChunk`, `WriteChunk` (which
takes as many bytes as the file read gave, up to a chunk).
`rust` chooses the program: the C one has an exit code for each stage, ignores `fwrite` and takes
a failed `fread` for the end of the file; the Rust one returns errors and releases by drop.
`held` is what is open or allocated: the handle with its libusb context, file and buffer, the
progress display of the C program from its start, and what a failed scan leaves (`ScanLeaves`: the
libusb context stored before the search, and the device list at an unreadable descriptor).
Its arithmetic is that of a release build (the address wraps).

`FlashFlow` has an action for each stage of `main` and `init_device_fes`, and `place` for where they
are; `FelStep` and `FesStep` are the rows of commands. `hdl` is the connection a handle was opened on, so that a handle that
outlives its connection is visible. Every call may fail (`Fault`), and fails when the device
behind it is gone; `DeviceLeaves` and `DeviceBoots` are the device's own doing. `late` says that
answers of failed calls may still come on this connection (`MayLeaveAnswer`); only a new connection
surely has none. A FES call on such a connection may take one for its own and succeed whether
the device carried it out or not, or fail on it. The verification cannot: it reads 12 bytes of
data first, and a late answer has 13 (`TakesAnswer`). With libusb that is an overflow; WinUSB
cuts the packet, and what follows it does not start with AWUS. The inits of the wait loop are the first calls on
their connection, so the late answers an init may take are those of other inits, with the mode
of the same firmware. `carried` is counted up to the return of the call; a
command that the device carries out after the host gave up on it is counted with the call
(`perhaps`). The program is assumed to start on a connection without late answers of an earlier
program. An image of more than 2^32 bytes is announced and sent with a narrowed length
(`SuccessMeansAll`, section 4); `carried` counts the command, not the bytes. The code behind the
`full_image` branch cannot be reached: the flag is always 1 and its branch returns.

## 3. What the runs check

| Run | Bounds | Shows |
|---|---|---|
| `session_all` | all 10 operations, 3 calls, 1 fault, data of 8 and 13 bytes | `InStep`: until a transfer fails, and again once a later call has begun with an answer of its own, host and device are at the same place, also after refusals. `HonestSuccess`: success in step means that this very command was carried out with the caller's argument. `ModeIsCurrent`: from a successful init until the device re-enumerates the stored mode is the firmware's. `Resynced`: a call that succeeds on its own answers leaves nothing in the pipes, whatever failed before it |
| `session_live` | all operations, 2 calls, 1 fault | `CallReturns` |
| `fes_transfer` | lengths -1..18, chunk 4, sector 2, word 16, all entries and kinds of tags | `FinishMarksTheEnd`, `NoOverlap`, refinement of `RangeTransfer`, termination |
| `fel_transfer` | lengths -1..21, chunk 4, word 16, all modes | `CallbackAccounts`, `NoOverlap`, refinement, termination |
| `bulk` | lengths 1..7 around chunks of 3, 2 empty requests in a row | `PipeSpec`: the loops refine `BytePipe`. `Returns`: libusb transfers return although the device falls silent |
| `usb_context` | 2 contexts, 5 places for objects, both backends, changed while all contexts are blank | `OwnObjects`, `ParentOutlives`, `NothingLost`, and `LockSpec`: the contexts refine `InterfaceLock` |
| `usb_scan` | 4 devices, 3 changes of the bus, 3 port values, every failure of the first pass | `ReportsPresent`; `OpenedIsChosen`: what an entry opens is a matching device, by bus and port the one that stands there (libusb) or at the list position the port is taken for (WinUSB; for a scan on an unchanged bus that is the entry's device), by path the entry's device; `NothingKept` |
| `payloads` | 3 calls, 1 failing command, 2 words, 2 values, arm32 and RISC-V devices | `ReadlTrue`, `WordsExact`, `HangsOnForeignOnly`, `Returns` |
| `cli` | both programs, all 8 commands, word 8, chunk 2, lengths 0..6 at and across the wrap, every step failing, short reads of the file | `ExitTellsMoved`; `Released`: nothing is open or allocated at the end but what `LeftBehind` names; `Ends` |
| `flash_flow` | 4 connections, 2 failing calls with late answers, 3 firmwares | `ExitZeroMeansImage`: also when the size or the image took a late answer of the erase for its own; `BackInFesMode`; `WaitEnds`: while no late answer is on its way |

Why the bounds are enough:

* *Session*: a stale answer needs one failed call to leave it and one later call to take it; a
  third call separates the init that FEL and FES need from both. Legs, data direction and
  answer lengths are what the framing can tell apart, and all of them occur; data as long as
  a status (8) or a response (13) is the worst case for taking one for another.
* *Loops* (`fes_transfer`, `fel_transfer`, `cli`, `bulk`): the interesting places are multiples of
  the chunk, chunk multiples plus or minus one, and the wrap; the lengths go beyond two chunks
  and the bases lie next to the top of the address space.
* *Contexts*: a libusb context that is scanned twice has two contexts and two handles, and a
  fifth object belongs to the other context; two contexts are what sharing and the claim need.
  The properties are proved for every number of both.
* *Scanning*: two devices on one port number, one without a port number and one foreign device
  before, between or behind them; three changes can shift a list after it was made; with three
  port values the last position of the longest list wraps, as the 256th does in the code.
* *Payloads*: one failed call to leave something, a second to change the program table or
  leave something else, a third to trip over it.
* *Flow*: the first connection, the one after the bring-up, one that interrupts the waiting or
  the download, and one to recover.

Two runs **violate** a statement of the headers (`findings` in `PROJECT.json`):

| Run | Statement | What happens |
|---|---|---|
| `session_fesstale` | a FES call returns 0 only on success | the late response of a timed-out call answers the next one |
| `session_switch` | the flash type is switched to | a 68-byte request does not fit the 12-byte field and is dropped silently |

`HonestSuccess` and `InStep` promise nothing between a failed transfer and the next call that
begins with an answer of its own (`tainted`); `session_fesstale` shows why no more can be said of
FES. Nor can it of FEL: after a single failed transfer, a few failing calls can leave answers in
the pipe in such an order that a later `fel_exec` succeeds on them alone (five calls, data of 16
bytes; the bounds of `session_all` are too small for it). What remains true for all of them is
`Resynced`: the host has no way to empty the pipes, but one call that succeeds with its own
answers proves them empty. `HonestSuccess` leaves out `fes_switch`, whose argument is lost
(`SwitchDelivered`), and `ModeIsCurrent` the time between an open, or a failed init, and the next
init that succeeds: until then the guards test a mode that may be an older firmware's. A NULL
result pointer of a query or a verify call (`NullBuffer`) counts as a failed transfer, because it
leaves an answer that nobody reads. `InStep` also leaves out a FES call that the stale mode lets through to a device which
meanwhile runs FEL firmware (`Synced`): nothing in the exchange can detect it, and the call ends
in a timeout.

**Fairness.** `EfexSession`: weak fairness of the host's steps (a blocking call is executed, and
every bulk transfer ends, because libusb gets `DEFAULT_USB_TIMEOUT`, 60 s) and of the device's
steps (firmware serves its pipes; if it stops to, `RecvFails` is still enabled). The chunk loops,
`Cli` and the commands of `Payloads`: weak fairness of their only thread; a library call returns,
which `CallReturns` and `Returns` of `BulkTransfer` show. `BulkTransfer`: the system completes a
request that can complete; with libusb one can always complete, by its timeout. Two empty
requests in a row at most: the code has no such bound, and a device that sends empty packets for
ever would keep the libusb loops going. WinUSB has no timeout, so nothing is claimed of it.
`FlashFlow`: weak fairness of the program and of `DeviceBoots` (a device that left comes back while
it may); `WaitEnds` is about devices that from some time on stay in FES mode, on a connection where
no answer of a failed call is on its way. The second condition is needed: after one init
that timed out, every later init of the wait loop (`fes_flash.c:322`-`338`) may read the answer
of the one before it, fail, and leave its own for the next; the loop closes and opens the device
but nothing in it empties the pipe, so that it may run until the device restarts. Nothing is
assumed about faults, resets, reopening or further calls.

## 4. Disagreements between code and documentation

The following statements are definitions at the end of their modules, under "What the headers
promise and the code does not keep". TLC finds a counterexample of each; the first two are the
violation runs above, for the others the column says what to add to or change in which
configuration.

| Definition | Documentation | What the code does | Reproduce |
|---|---|---|---|
| `FesZeroMeansDone` | `efex-fes.h:121` 0 on success | takes a late answer for its own (`efex-usb.c:149`) | `session_fesstale` |
| `SwitchDelivered` | `efex-fes.h:105` switch storage type | drops the argument (`efex-usb.c:122`) | `session_switch` |
| `FelReadOwnData` | `efex-fel.h:25` reads from the specified address | after three failures a read takes an older read's bytes | `Session_all.cfg`, `Ops <- MCReadOps`, `Lens = {4}`, `MaxCalls = 4`, `MaxFaults = 3` |
| `StatusReported` | `efex-common.h:84`, `efex-protocol.h:36` an error code on failure | status values above zero are success | `Session_all.cfg` |
| `SuccessMeansAll` | `efex-fes.h:118` data length | narrows the length to 32 bits (`efex-fes.c:71`) | `FesTransfer.cfg`, `Requests <- MCLongRequests` |
| `BootTagsUseSectors` | `efex-fes.h:29`, `lib.rs:854` eMMC boot tags take a sector address | the tag's bits select byte addresses | `FesTransfer.cfg`, `Requests <- MCBootRequests` |
| `RightApi` | the setter of the backend states no condition | after an exit `INVALID_HANDLE_VALUE` or a `dev_name` of the other backend is left in the context | `UsbContext.cfg`, `SwitchWhen = "closed"` |
| `ExitCleans` | `efex-usb.h:161` cleans up the context structure | WinUSB leaves `INVALID_HANDLE_VALUE`, libusb leaves `dev_name` | `UsbContext.cfg` |
| `ExitClosesHandles` | `efex-usb.h:161` closes any open device handles | a second scan forgets the handle of the first | `UsbContext.cfg` |
| `ExitReleases` | `efex-usb.h:161` releases any resources | the list of a scan that met an unreadable descriptor stays | `UsbContext.cfg` |
| `EntriesWritten` | `usb_layer.h:131` number of devices found | a descriptor unreadable only in the second pass leaves unset entries | `UsbScan.cfg`, `"reread"` added to `Faults` |
| `PathsDistinct` | `usb_layer.h:46`, `:56` stable identity | libusb paths are bus and port; ports of two hubs may be equal | `UsbScan.cfg`, `Devices <- MCHubDevices` |
| `PortOpensChosen` | `usb_layer.h:38`, `:119` USB port number | on Windows the open takes it for a list position (`usb_layer_winusb.c:334`): of a scan entry another device may have it by then, and the port of a snapshot entry (`:493`) is the number of a port, which opens another device also on an unchanged bus | `UsbScan.cfg` |
| `PathsFreed` | `usb_layer.h:56` freed through the snapshot's free call | a failed Windows snapshot frees the array and not the paths | `UsbScan.cfg` |
| `ListFailureReported` | `usb_layer.h:108` an error code on failure | a failed `libusb_init` is not noticed, and a negative count becomes a huge unsigned bound (`usb_layer_libusb.c:86`, `:88`) | `UsbScan.cfg` |
| `ReceivedAll` | `efex-fel.h:30` number of bytes to read | the WinUSB receive takes any positive count for all | `Bulk.cfg` |
| `ExitZeroMeansSaved` | `efex-protocol.h:56`-`:58` file errors | the C program ignores `fwrite` and ends with 0 | `Cli.cfg` |

Two things the code does that no document speaks of, and that the properties name: a run of
the C program that fails in its scan returns 2 without `sunxi_usb_exit` (`efex-cli.c:207`-`211`), though
the scan has stored a libusb context, and neither there nor after a failed init does it free its
progress display (`LeftBehind` of `Cli`); and the wait loop of `fes_flash.c` may starve on late
answers (section 3, Fairness).

Found by reading, and not modelled (two tables without state): from -23 on the error codes that
`lib.rs:137` maps are shifted against `efex-protocol.h:37`, so that for instance
`EFEX_ERR_OPERATION_FAILED` (-30) arrives as `InvalidState`.

## 5. What is proved

All proofs hold for every value of the constants under the named assumptions.

**The chunk loops.** `TypeCorrect` of both modules. `FinishCorrect` (FES): the finish tag
goes exactly with the transfer that carries the last byte. The inductive
invariant (`LoopInv`) says that `remain` and `off` add up to the length, that `flags` is still the
caller's tag unless the count is zero, and that every header issued so far satisfies
the property. `CallbacksCorrect` (FEL): `told` equals `off` throughout. `Implements`
of both modules: the loop implements `RangeTransfer`. The heart is that the
incremental 32-bit address equals the base plus the offset divided by the unit,
modulo `Word`; this needs the chunk to be a multiple of the sector
(`ChunkAssumption`) and that `off` is a multiple of the chunk while bytes remain.
`NothingOverlaps` of both modules proves `NoOverlap`, with an invariant of its own (`PlacedInv`):
every transfer starts at the address of its offset, and any two stand one behind the other in
the buffer. Then bytes of two transfers lie in different units of the range (`DivSeparates`),
and units of a range not longer than the address space have different addresses also across
the wrap (`ModInjective`). The arithmetic is in `WordArithmetic`. `Implements` of FES assumes that no request's
length is truncated (`InRange`); `SuccessMeansAll` shows that this is necessary.

**The session.** `TypeCorrect`, `InStepHolds`, `OwnSuccessResyncs`, `SuccessIsHonest` and
`ModeStaysCurrent`, for any number of calls, faults and resets, any operations, lengths and
arguments. `InStep` alone is not inductive. The strengthening `IInv` of `EfexSessionProofs` adds
three facts about a session in step: `Idle` (without a call the host is at the start of a leg, and
a call in progress is one of the library's), `Silent` (a device that left the bus has nothing in
its pipes: this is what makes a new open start clean), `Deaf` (firmware in FEL mode has not answered
a FES call, so such a call can only end in a failed transfer). And two about a session in which a
transfer has failed: `Ids` (nothing in the pipes or the device belongs to a call later than the one
in progress) and `Queued`: as long as the call in progress has read no answer, everything ahead of
its own header, data and answers belongs to earlier calls, and they stand in the pipe, the device
and the pipe back in the order in which they were sent. So if the first answer a call reads is its
own, there is nothing before it and nothing behind, and the session is in step again; this is all
of the argument for `Resynced`. The rest: `Outgoing` and `Awaited` say what device and host find in
their pipe, `LegShape` that the device can tell from the place in the command what a header means;
every step then leads from one alternative of `InStep` or `Queued` to the next.

`SuccessIsHonest` and `ModeStaysCurrent` rest on it. Their invariant `JInv` adds to `IInv`: `Own`
(a call in step has consumed only its own answers), `Carried` (a good answer to the last leg is on
its way only once the device has carried the command out), `NoArgument` (queries have no argument to
lose) and `ModeStored` (the mode is on its way during the second leg of init and stored after it).
In step, what the host takes from its pipe is its own (`OwnAnswer`), so success is the device's
success.

**The byte loops.** `BulkTransferProofs` has one inductive invariant, `Accounts`: while a transfer
runs, `wire` is a beginning of the buffer of length `buf`, and `buf + len` is the total. From it
`Moves`: success moved everything (`SuccessMovedAll`), anything else a beginning (`MovedInOrder`), for
every length, chunk size and way of cutting; and `ImplementsPipe`. The lemma in between says that
appending the next bytes to a beginning is a longer beginning.

**The contexts.** `UsbLayerProofs` proves all of what `usb_context` checks, for any number of
contexts and objects, under the assumption that the backend is changed only while all contexts
are blank (`SwitchWhen = "blank"`; `RightApi` fails without it, section 4). `IInv` is the type
invariant with `PointersSound` (every pointer is NULL, or leads to a live object of the kind that
its field and the backend call for), `NotShared`, `OnlyChild` and `Parents`. Types and soundness
need each other: a claim or a parent is an id only because the pointer it was taken from is.
`ParentOutlives` alone is not inductive, because scans replace the handle and the libusb context
of a context at different times; `OnlyChild` says that a handle in a libusb context that some
context would exit is the handle that this context closes first. `FullInv` adds what the other
two theorems need: `PhaseInv` (while nothing was reopened, the next scan or open of a context
overwrites no pointer to an object), `ClaimLive` (who has the claim is an open libusb handle, so
that a new object at a used place cannot inherit the claim) and `NothingLost`. `LosesNone` and
`ImplementsLock` follow.

**The scans.** `UsbLayerProofs` also proves all of what `usb_scan` checks, for every set of devices
with different ids, lists of every length and any number of changes of the bus. The rank of a
position, the number of positions up to it, is a bijection to `1..Cardinality` (`RankGrows`,
`InOrderFacts`), so every finite set of positions can be put in order. The invariant `ScanInv` has
two parts besides types and `NothingKept`: no device is on the bus twice (`NoneTwice`, with what
`InsertAt` and `RemoveAt` do to a sequence), and every entry that was reported shows a matching
device of the list it was made from, or was never written (`AnswerShows`). From these,
`ScanOpensChosen`, for every entry of a scan or a snapshot: what is opened matches and is
present; by bus and port libusb opens a device with those of the entry's device; WinUSB opens the
one at the list position that the port is taken for, which is the entry's device if the entry is
of a scan, the list is the same and not longer than a port number can count; and a path opens the
only device that has it. That a Windows snapshot entry opens its own device by bus and port
cannot be proved: it is false (`PortOpensChosen`). `ScanReportsPresent` assumes that both passes see the same devices
(`"reread" \notin Faults`); without it `EntriesWritten` fails (section 4). The other three
theorems do not need it.

**The payloads.** `PayloadsProofs` proves all safety that `payloads` checks, for any number of
contexts, words, values, calls and failing commands, and for every interleaving with changes of
the global. The invariant (`IInv`) says of every context, whatever earlier calls left in its
scratch area: a call in progress has arguments and one architecture (`Asks`); once it has come
to its parameters, its whole program is in place, and once to the execution, its parameters too
(`Prepared`); until it returns, a word is what it was before the call or what the call was asked
to write (`WordsInv`); before the fetch, the place fetched from holds the word of the device
(`ValueInv`). The lemma that carries the rest is `RunsOwn`: a device that runs anything runs
the program of this call, and the instructions find their parameters where the C code puts them.
`ReadsTrue`, `WordsStayExact` and `OnlyForeignHangs` follow. The aarch64 table needs no case:
`Start` refuses it.

**The programs.** `ProgramProofs` proves the safety of `Cli` for both programs, every command, range,
chunk and word size. `Accounts` says that the loop's address is the base plus what is done, across
the wrap, and that the rest is what is left; `Told` that the bytes moved are a beginning of the
range, and all of it with exit code 0, unless a file failed unnoticed (`BytesAppend`: a chunk behind
a beginning is a longer beginning); `HeldInv` what `main` holds at each place. Then `ExitTells` and
`ReleasesAll`, whose `LeftBehind` is part of the statement. For `FlashFlow` the invariant `SentInv`
says which FES commands the last entries of `carried` are at each place of the row, all in the
connection of the handle, as long as the host is `Straight`: the handle is that of the connection
and no late answer is on its way. Once one is, the row may go on without the device, but the
connection stays so until the device restarts, on which the handle is dead; and in both
cases the verification cannot succeed. So where `main` returns 0 the row was straight throughout. A
handle can never belong to a connection that is yet to come. Then `FlowSentImage`, and `FlowIsBack`
with it.

**Only model-checked.** The liveness properties `CallReturns`, `Returns`, `Ends` and `WaitEnds`,
because liveness under fairness and `ENABLED` are out of the prover's reach.

## 6. Not modelled

* The wrappers of the Rust binding that make one call, and its conversions of enumerations: no
  state. Its build script and the manual test programs (`fel_test.c`, `fes_test.c`,
  `scan_device.c`): straight-line callers of what is modelled.
* The field-by-field layout of the protocol structures and the byte order of their fields; the
  sizes, the modes and the tags are in the models.
* The instruction words of the payloads beyond their number and their pc-relative offsets; what
  they do to caches; the sign that a 64-bit RISC-V extends on a word load.
* In `EfexSession`, packets are whole: transfers larger than a packet, empty packets and the 128 KB
  send loop are in `BulkTransfer`. The WinUSB receive, which may end early, is there only.
* In `Cli`, a scan that crashes (`UsbScan`), and the failure of `malloc` or of the payloads before
  the scan.
* The partition-wise branch of `fes_flash.c`, which cannot be reached; the partition table.
* Printing, hex dumps, the progress bar, option parsing, error strings.

`components` in `PROJECT.json` gives the status of each part.

## 7. Plan

Done: the session, the chunk loops, the transport with its contexts, scans and byte loops, the
payloads, the command lines and the flashing flow; every safety property and every refinement
that a run checks is also a theorem (section 5). Left:

1. An abstract specification of the session (a call in step is carried out once, or fails), which
   `EfexSession` implements, to put below `FesTransfer`, `Cli` and `FlashFlow`.
