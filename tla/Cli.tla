-------------------------------- MODULE Cli --------------------------------
(***************************************************************************)
(* One run of the efex command line, in C (efex-cli.c) or in Rust: open    *)
(* the device, move memory to a file or a file to memory chunk by chunk,   *)
(* release what was opened, and tell the shell how it went.                *)
(*                                                                         *)
(* Memory bytes are named by their address.  `moved' is what reached the   *)
(* far side, byte by byte: the file of a read, the terminal of a dump, the *)
(* device of a write.  FelTransfer has the inside of one chunk; here a FEL *)
(* call moves its chunk or fails.  Files are external: an open, a read or  *)
(* a write of one may fail, and a failed write may store a beginning.      *)
(***************************************************************************)
EXTENDS Integers, Sequences, FiniteSets

CONSTANTS
  Programs,    \* the programs: TRUE for the Rust one, FALSE for the C one
  Cmds,        \* the commands given
  Bases,       \* their addresses
  Lengths,     \* their lengths, or the size of the file
  Word,        \* 2^32
  Chunk,       \* 64 KB (4 KB for hexdump)
  FileFaults   \* whether reading and writing files may fail

ReadCmds == {"hexdump", "dump", "read"}
SingleCmds == {"read32", "write32", "exec"}
AllCmds == ReadCmds \cup SingleCmds \cup {"version", "write"}
FileCmds == {"read", "write"}

ASSUME CliAssumption ==
  /\ Programs \subseteq BOOLEAN /\ FileFaults \in BOOLEAN /\ Cmds \subseteq AllCmds
  /\ Word \in Nat \ {0} /\ Chunk \in Nat \ {0}
  /\ Bases \subseteq 0..Word-1 /\ Lengths \subseteq Nat

VARIABLES
  rust,       \* which of the two programs runs
  args,       \* cmd, address and length of this run
  pc,         \* where main is
  cur,        \* local: address of the next chunk
  remaining,  \* local: bytes still to move
  chunk,      \* local: bytes in the buffer, as pairs of address and offset
  moved,      \* ghost: the same for all bytes that got to the far side
  held,       \* what is open or allocated, see Resources
  exit_code,
  file_failed \* ghost: reading or writing the file failed
vars == <<rust, args, pc, cur, remaining, chunk, moved, held, exit_code, file_failed>>

(* A handle stands for the libusb context it was opened in too; a context  *)
(* and a device list of their own are what a failed scan leaves.           *)
Resources == {"progress", "handle", "file", "buffer", "context", "list"}

Pcs == {"scan", "usb_init", "efex_init", "command", "loop", "transfer", "save", "cleanup",
        "exited"}

TypeOK ==
  /\ rust \in Programs /\ file_failed \in BOOLEAN
  /\ args \in [cmd : Cmds, address : Bases, length : Lengths]
  /\ pc \in Pcs /\ cur \in 0..Word-1 /\ remaining \in Nat
  /\ held \subseteq Resources
  /\ exit_code \in 0..5

Init ==
  /\ rust \in Programs /\ file_failed = FALSE
  /\ args \in [cmd : Cmds, address : Bases, length : Lengths]
  /\ pc = "scan"
  /\ cur = args.address /\ remaining = args.length
  /\ chunk = <<>> /\ moved = <<>>
  /\ held = (IF rust THEN {} ELSE {"progress"})
  /\ exit_code = 0

Offset == args.length - remaining   \* `offset' of the write loop
Least(m, n) == IF m < n THEN m ELSE n
Locals == <<args, cur, remaining, chunk, moved>>

(* The first n bytes behind address a, at buffer offset o.                 *)
Bytes(a, o, n) == [i \in 1..n |-> [addr |-> (a + i - 1) % Word, off |-> o + i - 1]]

Goto(label) == pc' = label /\ UNCHANGED exit_code
(* An error that main returns with: its own exit code in C, 1 in Rust,     *)
(* whose main returns the error and whose drops release everything.        *)
Exit(label, code) == pc' = label /\ exit_code' = (IF rust THEN 1 ELSE code)

(* What a failed scan leaves in the context and behind it: libusb's stores *)
(* its libusb context before it looks for a device, and does not free the  *)
(* list when a descriptor cannot be read.                                  *)
ScanLeaves == {{}, {"context"}, {"context", "list"}}

(* The C program returns without sunxi_usb_exit; the drop of the Rust      *)
(* context makes it, which releases the libusb context.  A scan that       *)
(* crashes, see UsbScan, ends the program otherwise and is left out.       *)
Scan ==
  /\ pc = "scan"
  /\ \/ Goto("usb_init") /\ held' = held \cup {"handle"}
     \/ /\ Exit("exited", 2)
        /\ \E left \in ScanLeaves : held' = held \cup (IF rust THEN left \ {"context"} ELSE left)
  /\ UNCHANGED Locals

(* Mutant: the failure of sunxi_usb_init returns at once.                  *)
UsbInitNoExit ==
  /\ pc = "usb_init"
  /\ \/ Goto("efex_init") /\ UNCHANGED held
     \/ Exit("exited", 3) /\ UNCHANGED held
  /\ UNCHANGED Locals

UsbInit ==
  /\ pc = "usb_init"
  /\ \/ Goto("efex_init") /\ UNCHANGED held
     \/ Exit("exited", 3) /\ held' = held \ {"handle"}
  /\ UNCHANGED Locals

EfexInit ==
  /\ pc = "efex_init"
  /\ \/ Goto("command") /\ UNCHANGED held
     \/ Exit("exited", 4) /\ held' = held \ {"handle"}
  /\ UNCHANGED Locals

(* Missing or malformed arguments, a file that cannot be opened or is      *)
(* empty, no memory for the buffer: usage or a message, and exit code 1.   *)
BadCommand ==
  /\ pc = "command" /\ args.cmd # "version"
  /\ Exit("cleanup", 1)
  /\ UNCHANGED <<held>> /\ UNCHANGED Locals

Version ==
  /\ pc = "command" /\ args.cmd = "version"
  /\ Goto("cleanup")
  /\ UNCHANGED held /\ UNCHANGED Locals

(* read32, write32 and exec: one call, direct or through a payload.        *)
Single ==
  /\ pc = "command" /\ args.cmd \in SingleCmds
  /\ \/ Goto("cleanup") /\ moved' = <<[addr |-> args.address, off |-> 0]>>
     \/ Exit("cleanup", 5) /\ UNCHANGED moved
  /\ UNCHANGED <<args, cur, remaining, chunk, held>>

(* The C program refuses to write an empty file.                           *)
OpenLoop ==
  /\ pc = "command" /\ args.cmd \in ReadCmds \cup {"write"}
  /\ args.cmd = "write" /\ ~rust => args.length > 0
  /\ held' = held \cup {"buffer"} \cup (IF args.cmd \in FileCmds THEN {"file"} ELSE {})
  /\ Goto("loop")
  /\ UNCHANGED Locals

(* Both ends of a loop free the buffer and close the file.                 *)
CloseLoop == held' = held \ {"buffer", "file"}

(* Mutant: a loop ends when at most one chunk is left.                     *)
LoopEndsEarly == remaining <= 1
LoopEnds == remaining = 0

Loop ==
  /\ pc = "loop"
  /\ IF LoopEnds THEN Goto("cleanup") /\ CloseLoop
                 ELSE Goto("transfer") /\ UNCHANGED held
  /\ UNCHANGED Locals

(* Mutant: a failed read is tried again without a limit.                   *)
ReadFailsAgain == pc' = "loop" /\ UNCHANGED <<exit_code, chunk, held>>

ReadFails == Exit("cleanup", 5) /\ CloseLoop /\ UNCHANGED chunk

(* sunxi_efex_fel_read of the next chunk.                                  *)
ReadChunk ==
  /\ pc = "transfer" /\ args.cmd \in ReadCmds
  /\ \/ /\ chunk' = Bytes(cur, Offset, Least(remaining, Chunk))
        /\ Goto("save") /\ UNCHANGED held
     \/ ReadFails
  /\ UNCHANGED <<args, cur, remaining, moved>>

(* Mutant: the address does not wrap.                                      *)
AdvanceOver(n) == cur' = cur + n /\ remaining' = remaining - n

Advance(n) == cur' = (cur + n) % Word /\ remaining' = remaining - n

(* The chunk goes to the file or the terminal.                             *)
SaveChunk ==
  /\ pc = "save"
  /\ moved' = moved \o chunk /\ chunk' = <<>>
  /\ Advance(Least(remaining, Chunk)) /\ Goto("loop")
  /\ UNCHANGED <<args, held>>

(* The C program does not look at the result of fwrite; write_all of Rust  *)
(* returns the error.                                                      *)
SaveFails ==
  /\ pc = "save" /\ FileFaults
  /\ file_failed' = TRUE
  /\ \E n \in 0..(Len(chunk) - 1) : moved' = moved \o SubSeq(chunk, 1, n)
  /\ chunk' = <<>>
  /\ IF rust THEN Exit("cleanup", 1) /\ CloseLoop /\ UNCHANGED <<cur, remaining>>
             ELSE Advance(Least(remaining, Chunk)) /\ Goto("loop") /\ UNCHANGED held
  /\ UNCHANGED args

(* The next bytes of the file, a chunk or fewer, and sunxi_efex_fel_write  *)
(* of them.                                                                *)
WriteChunk ==
  /\ pc = "transfer" /\ args.cmd = "write"
  /\ \/ \E n \in 1..Least(remaining, Chunk) :
          /\ moved' = moved \o Bytes(cur, Offset, n)
          /\ Advance(n) /\ Goto("loop") /\ UNCHANGED held
     \/ Exit("cleanup", 5) /\ CloseLoop /\ UNCHANGED <<cur, remaining, moved>>
  /\ UNCHANGED <<args, chunk>>

(* fread ends at an error as it does at the end of the file.               *)
FileReadFails ==
  /\ pc = "transfer" /\ args.cmd = "write" /\ FileFaults
  /\ file_failed' = TRUE
  /\ IF rust THEN Exit("cleanup", 1) ELSE Goto("cleanup")
  /\ CloseLoop
  /\ UNCHANGED Locals

(* sunxi_usb_exit and the progress display, or the drop of the context.    *)
Cleanup ==
  /\ pc = "cleanup"
  /\ held' = held \ {"handle", "progress"}
  /\ Goto("exited")
  /\ UNCHANGED Locals

(* The steps that do not fail on the file.                                 *)
Step ==
  \/ Scan \/ UsbInit \/ EfexInit \/ BadCommand \/ Version \/ Single \/ OpenLoop \/ Loop
  \/ ReadChunk \/ SaveChunk \/ WriteChunk \/ Cleanup

Next ==
  /\ UNCHANGED rust
  /\ (Step /\ UNCHANGED file_failed) \/ SaveFails \/ FileReadFails

Spec == Init /\ [][Next]_vars
FairSpec == Spec /\ WF_vars(Next)

----------------------------------------------------------------------------
Wanted == Bytes(args.address, 0, args.length)

(* The C program does not notice when a file fails.                        *)
FilesNoticed == rust \/ ~file_failed

(* What a run of read, dump, hexdump or write moved when it ends, well or  *)
(* not, is a beginning of its range, every byte from and to its place: no  *)
(* hole in the file or in memory, also when the range wraps around the end *)
(* of the address space.  If it exits with 0, it is the whole range.       *)
ExitTellsMoved ==
  pc = "exited" /\ args.cmd \in ReadCmds \cup {"write"} /\ FilesNoticed =>
    /\ \E n \in 0..args.length : moved = Bytes(args.address, 0, n)
    /\ exit_code = 0 => moved = Wanted

(* What the code leaves behind when the program ends.  The C program       *)
(* returns from a failed scan with whatever the scan left, and from it and *)
(* from a failed init without freeing its progress display; the Rust one   *)
(* may leave the list of a failed scan.                                    *)
LeftBehind ==
  IF rust /\ exit_code = 1 THEN {"list"}
  ELSE IF exit_code = 2 THEN {"progress", "context", "list"}
  ELSE IF exit_code \in {3, 4} THEN {"progress"} ELSE {}

(* Whichever step failed, a program that ends has closed the device and    *)
(* the file, freed the buffer and exited the backend, but for LeftBehind.  *)
Released == pc = "exited" => held \subseteq LeftBehind

(* Every run ends.                                                         *)
Ends == <>(pc = "exited")

(* efex-protocol.h: "EFEX_ERR_FILE_WRITE", which nothing returns: the C    *)
(* program ends with 0 although the file is not complete.                  *)
ExitZeroMeansSaved ==
  pc = "exited" /\ exit_code = 0 /\ args.cmd \in FileCmds => moved = Wanted
=============================================================================
