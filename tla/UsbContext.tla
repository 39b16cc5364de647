----------------------------- MODULE UsbContext -----------------------------
(***************************************************************************)
(* The operating-system objects behind the contexts of a process: who      *)
(* allocates them, which context points to them, who releases them, and    *)
(* through which of the two backends.                                      *)
(*                                                                         *)
(* A struct sunxi_efex_ctx_t has three pointers: hdl, usb_context and      *)
(* dev_name.  The backend in use is one global variable of the process; a  *)
(* pointer does not say which backend made it.  The objects live in        *)
(* `heap', whose ids may be used again after they are freed.               *)
(*                                                                         *)
(* libusb_init, the device list and CreateFile are external and modelled   *)
(* by the objects they make and need.  That libusb_init or the listing     *)
(* itself fails is left to UsbScan.  What happens after a call got a wrong *)
(* object is undefined and not modelled: RightApi says there is none.      *)
(***************************************************************************)
EXTENDS Integers, FiniteSets

CONSTANTS
  Ctxs,        \* the contexts of the process
  Ids,         \* bound: places for operating-system objects
  NULL,        \* the null pointer
  INVALID,     \* INVALID_HANDLE_VALUE of Windows, which is not NULL
  Windows,     \* whether the build is for Windows and has both backends
  Asked,       \* backend types the application asks for
  SwitchWhen   \* "blank", "closed" or "any": the contexts when it asks

BackendTypes == {"AUTO", "LIBUSB", "WINUSB"}

ASSUME PointersAssumption == /\ NULL \notin Ids \cup Ctxs /\ INVALID \notin Ids
                             /\ NULL # INVALID
ASSUME UseAssumption == /\ Windows \in BOOLEAN
                        /\ Asked \subseteq BackendTypes \cup {"other"}
                        /\ SwitchWhen \in {"blank", "closed", "any"}

VARIABLES
  current_backend,  \* enum usb_backend_type
  ctx,              \* per context: hdl, usb, name
  phase,            \* ghost: how far the application has opened it
  heap,             \* the objects: kind and, of a libusb object, its context
  claim,            \* the handle that has claimed interface 0, or NULL
  reopened          \* ghost: some context was scanned or opened again without an exit
vars == <<current_backend, ctx, phase, heap, claim, reopened>>

Kinds == {"free", "libusb_context", "libusb_handle", "libusb_list", "win_handle", "name"}
Phases == {"closed", "scanned", "opened"}
Object == [kind : Kinds, parent : Ids \cup {NULL}]
Obj(kind, parent) == [kind |-> kind, parent |-> parent]
Free == Obj("free", NULL)
Blank == [hdl |-> NULL, usb |-> NULL, name |-> NULL]

TypeOK ==
  /\ current_backend \in BackendTypes
  /\ ctx \in [Ctxs -> [hdl : Ids \cup {NULL, INVALID}, usb : Ids \cup {NULL},
                       name : Ids \cup {NULL}]]
  /\ phase \in [Ctxs -> Phases]
  /\ heap \in [Ids -> Object]
  /\ claim \in Ids \cup {NULL}
  /\ reopened \in BOOLEAN

Init ==
  /\ current_backend = "AUTO"
  /\ ctx = [c \in Ctxs |-> Blank]
  /\ phase = [c \in Ctxs |-> "closed"]
  /\ heap = [o \in Ids |-> Free]
  /\ claim = NULL
  /\ reopened = FALSE

(* get_backend_ops *)
UsesWinusb == Windows /\ current_backend # "LIBUSB"

FreeIds == {o \in Ids : heap[o] = Free}
KindOf(p) == IF p \in Ids THEN heap[p].kind ELSE "free"

(* A scan belongs to a closed context and an open to a scanned one.        *)
Scanned(c) ==
  /\ phase' = [phase EXCEPT ![c] = "scanned"]
  /\ reopened' = (reopened \/ phase[c] # "closed")
Opened(c) ==
  /\ phase' = [phase EXCEPT ![c] = "opened"]
  /\ reopened' = (reopened \/ phase[c] # "scanned")

(* When the application may change the backend.                            *)
MaySwitch ==
  CASE SwitchWhen = "blank"  -> \A c \in Ctxs : ctx[c] = Blank
    [] SwitchWhen = "closed" -> \A c \in Ctxs : phase[c] = "closed"
    [] OTHER                 -> TRUE

(***************************************************************************)
(* libusb.                                                                 *)
(***************************************************************************)

(* Both scans make a new libusb context and store it over the old one      *)
(* before they look at a device; a handle they open replaces the old one.  *)
LibusbNothingFound(c) ==
  \E u \in FreeIds :
    /\ heap' = [heap EXCEPT ![u] = Obj("libusb_context", NULL)]
    /\ ctx' = [ctx EXCEPT ![c].usb = u]

(* Mutant: the previous context is exited first, its handle kept open.     *)
LibusbFoundExitsOld(c) ==
  \E u \in FreeIds : \E h \in FreeIds \ {u} :
    /\ heap' = [o \in Ids |-> CASE o = u -> Obj("libusb_context", NULL)
                                [] o = h -> Obj("libusb_handle", u)
                                [] o = ctx[c].usb -> Free
                                [] OTHER -> heap[o]]
    /\ ctx' = [ctx EXCEPT ![c].usb = u, ![c].hdl = h]

LibusbFound(c) ==
  \E u \in FreeIds : \E h \in FreeIds \ {u} :
    /\ heap' = [heap EXCEPT ![u] = Obj("libusb_context", NULL), ![h] = Obj("libusb_handle", u)]
    /\ ctx' = [ctx EXCEPT ![c].usb = u, ![c].hdl = h]

(* scan_device gives up on a descriptor it cannot read, keeping the list.  *)
LibusbListKept(c) ==
  \E u \in FreeIds : \E l \in FreeIds \ {u} :
    /\ heap' = [heap EXCEPT ![u] = Obj("libusb_context", NULL), ![l] = Obj("libusb_list", u)]
    /\ ctx' = [ctx EXCEPT ![c].usb = u]

LibusbScan(c) ==
  /\ ~UsesWinusb
  /\ LibusbNothingFound(c) \/ LibusbFound(c) \/ LibusbListKept(c)
  /\ Scanned(c)
  /\ UNCHANGED <<current_backend, claim>>

LibusbScanAt(c) ==
  /\ ~UsesWinusb
  /\ LibusbNothingFound(c) \/ LibusbFound(c)
  /\ Scanned(c)
  /\ UNCHANGED <<current_backend, claim>>

(* Mutant: the result of libusb_claim_interface is not looked at.          *)
ClaimedUnchecked(h) == claim' = h

(* The claim of an interface fails while another handle has it, and may    *)
(* fail for the device's own reasons.  A configuration that cannot be read *)
(* afterwards makes the call fail with the interface still claimed.        *)
Claimed(h) == claim \in {NULL, h} /\ claim' = h

LibusbInit(c) ==
  /\ ~UsesWinusb
  /\ \/ ctx[c].hdl # NULL /\ Claimed(ctx[c].hdl)
     \/ UNCHANGED claim
  /\ Opened(c)
  /\ UNCHANGED <<current_backend, ctx, heap>>

(* Mutant: the handle is left in the context.                              *)
LibusbExitKeepsHandle(c) ==
  /\ ~UsesWinusb
  /\ heap' = [o \in Ids |-> IF o \in {ctx[c].hdl, ctx[c].usb} THEN Free ELSE heap[o]]
  /\ claim' = IF claim = ctx[c].hdl THEN NULL ELSE claim
  /\ ctx' = [ctx EXCEPT ![c].usb = NULL]
  /\ phase' = [phase EXCEPT ![c] = "closed"]
  /\ UNCHANGED <<current_backend, reopened>>

(* Mutant: the handle is forgotten without libusb_close.                   *)
LibusbExitNoClose(c) ==
  /\ ~UsesWinusb
  /\ heap' = [o \in Ids |-> IF o = ctx[c].usb THEN Free ELSE heap[o]]
  /\ claim' = IF claim = ctx[c].hdl THEN NULL ELSE claim
  /\ ctx' = [ctx EXCEPT ![c].hdl = NULL, ![c].usb = NULL]
  /\ phase' = [phase EXCEPT ![c] = "closed"]
  /\ UNCHANGED <<current_backend, reopened>>

(* Releases the interface, closes the handle, exits the libusb context.    *)
(* dev_name is not looked at.                                              *)
LibusbExit(c) ==
  /\ ~UsesWinusb
  /\ heap' = [o \in Ids |-> IF o \in {ctx[c].hdl, ctx[c].usb} THEN Free ELSE heap[o]]
  /\ claim' = IF claim = ctx[c].hdl THEN NULL ELSE claim
  /\ ctx' = [ctx EXCEPT ![c].hdl = NULL, ![c].usb = NULL]
  /\ phase' = [phase EXCEPT ![c] = "closed"]
  /\ UNCHANGED <<current_backend, reopened>>

(***************************************************************************)
(* WinUSB.                                                                 *)
(***************************************************************************)

(* Both scans only copy the path of the device; a copy that cannot be      *)
(* allocated leaves NULL over the old path.                                *)
WinusbScan(c) ==
  /\ UsesWinusb
  /\ \/ UNCHANGED <<ctx, heap>>
     \/ /\ ctx' = [ctx EXCEPT ![c].name = NULL]
        /\ UNCHANGED heap
     \/ \E n \in FreeIds :
          /\ heap' = [heap EXCEPT ![n] = Obj("name", NULL)]
          /\ ctx' = [ctx EXCEPT ![c].name = n]
  /\ Scanned(c)
  /\ UNCHANGED <<current_backend, claim>>

(* Opens the path of the context with sharing: nothing is claimed.  A      *)
(* failed CreateFile leaves INVALID_HANDLE_VALUE in hdl.                   *)
WinusbInit(c) ==
  /\ UsesWinusb
  /\ \/ /\ ctx[c].name = NULL
        /\ UNCHANGED <<ctx, heap>>
     \/ /\ ctx[c].name # NULL
        /\ ctx' = [ctx EXCEPT ![c].hdl = INVALID]
        /\ UNCHANGED heap
     \/ /\ ctx[c].name # NULL
        /\ \E h \in FreeIds :
             /\ heap' = [heap EXCEPT ![h] = Obj("win_handle", NULL)]
             /\ ctx' = [ctx EXCEPT ![c].hdl = h]
  /\ Opened(c)
  /\ UNCHANGED <<current_backend, claim>>

(* CloseHandle for a handle, free for the path.                            *)
WinusbExit(c) ==
  /\ UsesWinusb
  /\ heap' = [o \in Ids |-> IF o \in {ctx[c].hdl, ctx[c].name} THEN Free ELSE heap[o]]
  /\ ctx' = [ctx EXCEPT ![c].hdl = IF @ = INVALID THEN @ ELSE NULL, ![c].name = NULL]
  /\ phase' = [phase EXCEPT ![c] = "closed"]
  /\ UNCHANGED <<current_backend, claim, reopened>>

(***************************************************************************)
(* The process.                                                            *)
(***************************************************************************)

(* Rust: Context::set_device_path frees the old path and copies the new    *)
(* one; the copy may fail, with NULL left in the context.                  *)
SetDevicePath(c) ==
  /\ LET freed == [o \in Ids |-> IF o = ctx[c].name THEN Free ELSE heap[o]]
     IN \/ /\ heap' = freed
           /\ ctx' = [ctx EXCEPT ![c].name = NULL]
        \/ \E n \in {o \in Ids : freed[o] = Free} :
             /\ heap' = [freed EXCEPT ![n] = Obj("name", NULL)]
             /\ ctx' = [ctx EXCEPT ![c].name = n]
  /\ phase' = [phase EXCEPT ![c] = IF @ = "closed" THEN "scanned" ELSE @]
  /\ UNCHANGED <<current_backend, claim, reopened>>

(* Mutant: the type is stored before it is checked.                        *)
AnyBackend(b) == b \in BackendTypes \cup {"other"}

(* The types the build supports; USB_BACKEND_WINUSB only on Windows.       *)
SupportedBackend(b) == b \in BackendTypes /\ (b = "WINUSB" => Windows)

(* sunxi_efex_set_usb_backend; it does not look at the contexts.           *)
SetUsbBackend ==
  /\ MaySwitch
  /\ \E b \in Asked :
       /\ SupportedBackend(b)
       /\ current_backend' = b
  /\ UNCHANGED <<ctx, phase, heap, claim, reopened>>

Next ==
  \/ SetUsbBackend
  \/ \E c \in Ctxs :
       \/ LibusbScan(c) \/ LibusbScanAt(c) \/ LibusbInit(c) \/ LibusbExit(c)
       \/ WinusbScan(c) \/ WinusbInit(c) \/ WinusbExit(c)
       \/ SetDevicePath(c)

Spec == Init /\ [][Next]_vars

----------------------------------------------------------------------------
(* Whatever the application calls next, the operating system gets objects  *)
(* of the kind the call is for, and none that was released: libusb calls   *)
(* get a libusb handle and context, DeviceIoControl and CloseHandle a      *)
(* Windows handle (or INVALID_HANDLE_VALUE, which they refuse), free a     *)
(* path.  One global backend and untyped pointers make this hard to see.   *)
RightApi ==
  \A c \in Ctxs :
    /\ ctx[c].name # NULL => KindOf(ctx[c].name) = "name"
    /\ UsesWinusb => ctx[c].hdl \in {NULL, INVALID} \/ KindOf(ctx[c].hdl) = "win_handle"
    /\ ~UsesWinusb => /\ ctx[c].hdl # NULL => KindOf(ctx[c].hdl) = "libusb_handle"
                      /\ ctx[c].usb # NULL => KindOf(ctx[c].usb) = "libusb_context"

(* A libusb handle never outlives the libusb context it was opened in,     *)
(* also when scans replace handle and context one after the other:         *)
(* libusb_close uses the context.                                          *)
ParentOutlives ==
  \A h \in Ids : heap[h].kind = "libusb_handle" => KindOf(heap[h].parent) = "libusb_context"

(* No two contexts point to one object, so that the exit of one leaves the *)
(* handle, the libusb context and the path of the other alone.             *)
NotShared ==
  \A c, d \in Ctxs : c # d =>
    /\ ctx[c].hdl \in Ids => ctx[c].hdl # ctx[d].hdl
    /\ ctx[c].usb \in Ids => ctx[c].usb # ctx[d].usb
    /\ ctx[c].name \in Ids => ctx[c].name # ctx[d].name

(* Both: every call gets live objects of the right kind that only its own  *)
(* context has.                                                            *)
OwnObjects == RightApi /\ NotShared

(* As long as every context is exited before it is scanned again, every    *)
(* open handle, libusb context and path is reachable from a context, so    *)
(* that an exit can release it: none is lost, whichever scan or open       *)
(* failed (sunxi_usb_exit "closes any open device handles").               *)
NothingLost ==
  ~reopened => \A o \in Ids : heap[o].kind \notin {"free", "libusb_list"} =>
    \E c \in Ctxs : o \in {ctx[c].hdl, ctx[c].usb, ctx[c].name}

(* The context that holds the interface; a claim that no context reaches   *)
(* any more is held by nobody who could give it back.                      *)
Holder ==
  IF claim = NULL THEN NULL
  ELSE IF \E c \in Ctxs : ctx[c].hdl = claim
       THEN CHOOSE c \in Ctxs : ctx[c].hdl = claim
       ELSE INVALID

(* Opening and exiting contexts is a lock on the interface: at most one    *)
(* context holds it, only its exit gives it back, and it is lost only if   *)
(* some context was scanned or opened again without an exit.               *)
Lock == INSTANCE InterfaceLock WITH
          NoCtx <- NULL, Lost <- INVALID, holder <- Holder, careless <- reopened
LockSpec == Lock!Spec

(***************************************************************************)
(* What the headers promise and the code does not keep.                    *)
(***************************************************************************)
(* sunxi_usb_exit "cleans up the context structure": after its exit a      *)
(* context is as it was before it was used.                                *)
ExitCleans == \A c \in Ctxs : phase[c] = "closed" => ctx[c] = Blank

(* sunxi_usb_exit "closes any open device handles": once every context was *)
(* exited no libusb handle is open, so that the device can be claimed.     *)
ExitClosesHandles ==
  (\A c \in Ctxs : phase[c] = "closed") => \A o \in Ids : heap[o].kind # "libusb_handle"

(* sunxi_usb_exit "releases any resources allocated during USB             *)
(* initialization": a libusb device list is one.                           *)
ExitReleases ==
  (\A c \in Ctxs : phase[c] = "closed") => \A o \in Ids : heap[o].kind # "libusb_list"
=============================================================================
