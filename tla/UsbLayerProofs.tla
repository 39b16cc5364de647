--------------------------- MODULE UsbLayerProofs ---------------------------
(***************************************************************************)
(* The contexts of the USB layer, and the scans.                           *)
(*                                                                         *)
(* The pointers of the contexts are sound for every number of contexts and *)
(* objects, as long as the backend is only changed while every context is  *)
(* blank; without a second scan or open between two exits nothing is lost. *)
(* The contexts implement the lock on the interface.                       *)
(*                                                                         *)
(* A scan reports the matching devices that are present, and opens the one *)
(* that was chosen, for every set of devices, on buses of every length.    *)
(***************************************************************************)
EXTENDS UsbContext, UsbScan, WordArithmetic, SequenceTheorems, FiniteSetTheorems, TLAPS

(* What a non-NULL pointer points to, by the backend in use.               *)
NameSound(c) == ctx[c].name # NULL => heap[ctx[c].name].kind = "name"
UsbSound(c) == ctx[c].usb # NULL => ~UsesWinusb /\ heap[ctx[c].usb].kind = "libusb_context"
HdlSound(c) ==
  /\ ctx[c].hdl \in Ids =>
       heap[ctx[c].hdl].kind = IF UsesWinusb THEN "win_handle" ELSE "libusb_handle"
  /\ ctx[c].hdl = INVALID => UsesWinusb

PointersSound == \A c \in Ctxs : NameSound(c) /\ UsbSound(c) /\ HdlSound(c)

(* The libusb handles of the libusb context that a context would exit are  *)
(* the one it would close first.  Scans replace the handle and the libusb  *)
(* context of a context at different times, so that ParentOutlives is not  *)
(* inductive without this.                                                 *)
OnlyChild ==
  \A c \in Ctxs : \A h \in Ids :
    heap[h].kind = "libusb_handle" /\ heap[h].parent = ctx[c].usb => ctx[c].hdl = h

Parents ==
  \A h \in Ids : heap[h].kind = "libusb_handle" =>
    heap[h].parent \in Ids /\ heap[heap[h].parent].kind = "libusb_context"

IInv == TypeOK /\ PointersSound /\ NotShared /\ OnlyChild /\ Parents

(* The invariant holds initially.                                          *)
LEMMA IInvInit == Init => IInv
<1> SUFFICES ASSUME Init PROVE IInv
  OBVIOUS
<1>1. TypeOK
  BY DEF Init, TypeOK, Blank, Free, Obj, Object, Kinds, Phases, BackendTypes
<1>2. \A c \in Ctxs : ctx[c].hdl = NULL /\ ctx[c].usb = NULL /\ ctx[c].name = NULL
  BY DEF Init, Blank
<1>3. \A o \in Ids : heap[o].kind = "free"
  BY DEF Init, Free, Obj
<1>4. PointersSound
  BY <1>2, PointersAssumption DEF PointersSound, NameSound, UsbSound, HdlSound
<1>5. NotShared
  BY <1>2, PointersAssumption DEF NotShared
<1> QED
  BY <1>1, <1>3, <1>4, <1>5 DEF IInv, OnlyChild, Parents

----------------------------------------------------------------------------
(* The pointers of a context, by type.                                     *)
LEMMA PointerTypes ==
  ASSUME TypeOK, NEW c \in Ctxs
  PROVE  /\ ctx[c].hdl \in Ids \cup {NULL, INVALID}
         /\ ctx[c].usb \in Ids \cup {NULL} /\ ctx[c].name \in Ids \cup {NULL}
         /\ ctx[c] = [hdl |-> ctx[c].hdl, usb |-> ctx[c].usb, name |-> ctx[c].name]
  BY DEF TypeOK

(* Every object a context points to is live, and its kind tells the field. *)
LEMMA PointedTo ==
  ASSUME TypeOK, PointersSound, NEW c \in Ctxs
  PROVE  /\ ctx[c].hdl \in Ids => heap[ctx[c].hdl].kind \in {"win_handle", "libusb_handle"}
         /\ ctx[c].usb \in Ids => heap[ctx[c].usb].kind = "libusb_context"
         /\ ctx[c].name \in Ids => heap[ctx[c].name].kind = "name"
  BY PointersAssumption DEF PointersSound, NameSound, UsbSound, HdlSound

(* A step that is about context c and keeps the backend: the heap changes  *)
(* only where it was free or c pointed to, and the new pointers of c point *)
(* where the old ones did or to what was free.                             *)
OnlyAbout(c) ==
  /\ UNCHANGED current_backend
  /\ \A d \in Ctxs \ {c} : ctx'[d] = ctx[d]
  /\ \A o \in Ids : heap'[o] = heap[o] \/ heap[o] = Free
                    \/ o \in {ctx[c].hdl, ctx[c].usb, ctx[c].name}
  /\ ctx'[c].hdl \in Ids => ctx'[c].hdl = ctx[c].hdl \/ heap[ctx'[c].hdl] = Free
  /\ ctx'[c].usb \in Ids => ctx'[c].usb = ctx[c].usb \/ heap[ctx'[c].usb] = Free
  /\ ctx'[c].name \in Ids => ctx'[c].name = ctx[c].name \/ heap[ctx'[c].name] = Free

(* Such a step keeps the pointers of all contexts sound and apart.         *)
LEMMA OneContext ==
  ASSUME TypeOK, PointersSound, NotShared, NEW c \in Ctxs, OnlyAbout(c),
         NameSound(c)', UsbSound(c)', HdlSound(c)'
  PROVE  PointersSound' /\ NotShared'
<1> DEFINE Ptrs(d) == {ctx[d].hdl, ctx[d].usb, ctx[d].name}
<1>0. Free.kind = "free"
  BY DEF Free, Obj
<1>1. ASSUME NEW d \in Ctxs \ {c}, NEW p \in Ptrs(d), p \in Ids
      PROVE  p \notin Ptrs(c) /\ heap[p] # Free
  <2>1. heap[p] # Free
    BY <1>0, <1>1, PointedTo
  <2>2. p \notin Ptrs(c)
    BY <1>1, PointedTo DEF NotShared
  <2> QED BY <2>1, <2>2
<1>2. ASSUME NEW d \in Ctxs \ {c}, NEW p \in Ptrs(d), p \in Ids
      PROVE  heap'[p] = heap[p]
  BY <1>1, <1>2 DEF OnlyAbout
<1>3. ASSUME NEW d \in Ctxs \ {c}
      PROVE  NameSound(d)' /\ UsbSound(d)' /\ HdlSound(d)'
  <2>1. NameSound(d) /\ UsbSound(d) /\ HdlSound(d)
    BY DEF PointersSound
  <2>2. ctx'[d] = ctx[d] /\ UsesWinusb' = UsesWinusb
    BY DEF OnlyAbout, UsesWinusb
  <2>3. NameSound(d)'
    BY <1>2, <2>1, <2>2, PointerTypes DEF NameSound
  <2>4. UsbSound(d)'
    BY <1>2, <2>1, <2>2, PointerTypes DEF UsbSound
  <2>5. HdlSound(d)'
    BY <1>2, <2>1, <2>2 DEF HdlSound
  <2> QED BY <2>3, <2>4, <2>5
<1>4. PointersSound'
  BY <1>3 DEF PointersSound
<1>5. ASSUME NEW d \in Ctxs \ {c}
      PROVE  /\ ctx'[c].hdl \in Ids => ctx'[c].hdl # ctx'[d].hdl
             /\ ctx'[c].usb \in Ids => ctx'[c].usb # ctx'[d].usb
             /\ ctx'[c].name \in Ids => ctx'[c].name # ctx'[d].name
  <2>1. ctx'[d] = ctx[d]
    BY DEF OnlyAbout
  <2> QED BY <1>1, <2>1 DEF OnlyAbout
<1>6. NotShared'
  <2> SUFFICES ASSUME NEW d \in Ctxs, NEW e \in Ctxs, d # e
               PROVE  /\ ctx'[d].hdl \in Ids => ctx'[d].hdl # ctx'[e].hdl
                      /\ ctx'[d].usb \in Ids => ctx'[d].usb # ctx'[e].usb
                      /\ ctx'[d].name \in Ids => ctx'[d].name # ctx'[e].name
    BY DEF NotShared
  <2>1. CASE d = c
    BY <1>5, <2>1
  <2>2. CASE e = c
    BY <1>5, <2>2
  <2>3. CASE d # c /\ e # c
    BY <2>3 DEF NotShared, OnlyAbout
  <2> QED BY <2>1, <2>2, <2>3
<1> QED BY <1>4, <1>6

(* No libusb handle is made and no libusb context released; the libusb     *)
(* context of c stays, with its handle, or is a new one, or NULL.          *)
LEMMA SameFamilies ==
  ASSUME TypeOK, OnlyChild, Parents, NEW c \in Ctxs,
         \A d \in Ctxs \ {c} : ctx'[d] = ctx[d],
         \A o \in Ids : heap'[o].kind = "libusb_handle" => heap'[o] = heap[o],
         \A o \in Ids : heap[o].kind = "libusb_context" => heap'[o] = heap[o],
         \/ ctx'[c].usb = ctx[c].usb /\ ctx'[c].hdl = ctx[c].hdl
         \/ ctx'[c].usb = NULL
         \/ ctx'[c].usb \in Ids /\ heap[ctx'[c].usb] = Free
  PROVE  OnlyChild' /\ Parents'
<1>0. Free.kind = "free"
  BY DEF Free, Obj
<1>1. Parents'
  BY DEF Parents
<1>2. ASSUME NEW d \in Ctxs, NEW h \in Ids,
             heap'[h].kind = "libusb_handle", heap'[h].parent = ctx'[d].usb
      PROVE  ctx'[d].hdl = h
  <2>1. heap[h].kind = "libusb_handle" /\ heap[h].parent = ctx'[d].usb
    BY <1>2
  <2>2. heap[h].parent \in Ids /\ heap[heap[h].parent].kind = "libusb_context"
    BY <2>1 DEF Parents
  <2>3. CASE d # c
    BY <2>1, <2>3 DEF OnlyChild
  <2>4. CASE d = c
    BY <1>0, <2>1, <2>2, <2>4, PointersAssumption DEF OnlyChild
  <2> QED BY <2>3, <2>4
<1>3. OnlyChild'
  BY <1>2 DEF OnlyChild
<1> QED BY <1>1, <1>3

----------------------------------------------------------------------------
(* What a step leaves alone, field by field, and the types it keeps.       *)
CtxType == [Ctxs -> [hdl : Ids \cup {NULL, INVALID}, usb : Ids \cup {NULL},
                     name : Ids \cup {NULL}]]

(* What an assignment to fields of one context changes.                    *)
LEMMA SetHdlUsb ==
  ASSUME TypeOK, NEW c \in Ctxs, NEW h \in Ids \cup {NULL, INVALID}, NEW u \in Ids \cup {NULL},
         ctx' = [ctx EXCEPT ![c].hdl = h, ![c].usb = u]
  PROVE  /\ ctx' \in CtxType /\ \A d \in Ctxs \ {c} : ctx'[d] = ctx[d]
         /\ ctx'[c].hdl = h /\ ctx'[c].usb = u /\ ctx'[c].name = ctx[c].name
  BY DEF TypeOK, CtxType

LEMMA SetUsb ==
  ASSUME TypeOK, NEW c \in Ctxs, NEW u \in Ids \cup {NULL}, ctx' = [ctx EXCEPT ![c].usb = u]
  PROVE  /\ ctx' \in CtxType /\ \A d \in Ctxs \ {c} : ctx'[d] = ctx[d]
         /\ ctx'[c].usb = u /\ ctx'[c].hdl = ctx[c].hdl /\ ctx'[c].name = ctx[c].name
  BY DEF TypeOK, CtxType

LEMMA SetHdl ==
  ASSUME TypeOK, NEW c \in Ctxs, NEW h \in Ids \cup {NULL, INVALID},
         ctx' = [ctx EXCEPT ![c].hdl = h]
  PROVE  /\ ctx' \in CtxType /\ \A d \in Ctxs \ {c} : ctx'[d] = ctx[d]
         /\ ctx'[c].hdl = h /\ ctx'[c].usb = ctx[c].usb /\ ctx'[c].name = ctx[c].name
  BY DEF TypeOK, CtxType

LEMMA SetName ==
  ASSUME TypeOK, NEW c \in Ctxs, NEW n \in Ids \cup {NULL}, ctx' = [ctx EXCEPT ![c].name = n]
  PROVE  /\ ctx' \in CtxType /\ \A d \in Ctxs \ {c} : ctx'[d] = ctx[d]
         /\ ctx'[c].name = n /\ ctx'[c].hdl = ctx[c].hdl /\ ctx'[c].usb = ctx[c].usb
  BY DEF TypeOK, CtxType

(* The types of the ghosts.                                                *)
LEMMA PhaseTypes ==
  ASSUME TypeOK, NEW c \in Ctxs
  PROVE  /\ Scanned(c) => phase' \in [Ctxs -> Phases] /\ reopened' \in BOOLEAN
         /\ Opened(c) => phase' \in [Ctxs -> Phases] /\ reopened' \in BOOLEAN
         /\ phase' = [phase EXCEPT ![c] = "closed"] => phase' \in [Ctxs -> Phases]
         /\ phase' = [phase EXCEPT ![c] = IF @ = "closed" THEN "scanned" ELSE @]
              => phase' \in [Ctxs -> Phases]
  BY DEF TypeOK, Phases, Scanned, Opened

(* The objects a step makes, and the free one.                             *)
LEMMA Objects ==
  /\ Free \in Object /\ Free.kind = "free"
  /\ \A p \in Ids \cup {NULL} :
       /\ Obj("libusb_context", p) \in Object /\ Obj("libusb_context", p).kind = "libusb_context"
       /\ Obj("libusb_handle", p) \in Object /\ Obj("libusb_handle", p).kind = "libusb_handle"
       /\ Obj("libusb_handle", p).parent = p
       /\ Obj("libusb_list", p) \in Object /\ Obj("libusb_list", p).kind = "libusb_list"
       /\ Obj("win_handle", p) \in Object /\ Obj("win_handle", p).kind = "win_handle"
       /\ Obj("name", p) \in Object /\ Obj("name", p).kind = "name"
  BY DEF Free, Obj, Object, Kinds

(* A pointer that is kept, with its object, stays sound.                   *)
LEMMA Kept ==
  ASSUME TypeOK, PointersSound, UNCHANGED current_backend, NEW c \in Ctxs
  PROVE  /\ /\ ctx'[c].name = ctx[c].name
            /\ ctx[c].name \in Ids => heap'[ctx[c].name] = heap[ctx[c].name]
            => NameSound(c)'
         /\ /\ ctx'[c].usb = ctx[c].usb
            /\ ctx[c].usb \in Ids => heap'[ctx[c].usb] = heap[ctx[c].usb]
            => UsbSound(c)'
         /\ /\ ctx'[c].hdl = ctx[c].hdl
            /\ ctx[c].hdl \in Ids => heap'[ctx[c].hdl] = heap[ctx[c].hdl]
            => HdlSound(c)'
<1>1. NameSound(c) /\ UsbSound(c) /\ HdlSound(c)
  BY DEF PointersSound
<1>2. UsesWinusb' = UsesWinusb
  BY DEF UsesWinusb
<1> QED BY <1>1, <1>2, PointerTypes DEF NameSound, UsbSound, HdlSound

----------------------------------------------------------------------------
(* One lemma per action.                                                   *)
LEMMA StepLibusbNothingFound ==
  ASSUME IInv, NEW c \in Ctxs, ~UsesWinusb, LibusbNothingFound(c), Scanned(c),
         UNCHANGED <<current_backend, claim>>
  PROVE  IInv'
<1> USE DEF IInv
<1>1. PICK u \in FreeIds : /\ heap' = [heap EXCEPT ![u] = Obj("libusb_context", NULL)]
                           /\ ctx' = [ctx EXCEPT ![c].usb = u]
  BY DEF LibusbNothingFound
<1>2. u \in Ids /\ heap[u] = Free
  BY DEF FreeIds
<1>3. /\ ctx' \in CtxType /\ \A d \in Ctxs \ {c} : ctx'[d] = ctx[d]
      /\ ctx'[c].usb = u /\ ctx'[c].hdl = ctx[c].hdl /\ ctx'[c].name = ctx[c].name
  BY <1>1, <1>2, SetUsb
<1>4. /\ heap' \in [Ids -> Object] /\ heap'[u].kind = "libusb_context"
      /\ \A o \in Ids \ {u} : heap'[o] = heap[o]
  BY <1>1, <1>2, Objects DEF TypeOK
<1>5. TypeOK'
  BY <1>3, <1>4, PhaseTypes DEF TypeOK, CtxType
<1>6. NameSound(c)' /\ UsbSound(c)' /\ HdlSound(c)'
  <2>1. \A p \in {ctx[c].hdl, ctx[c].usb, ctx[c].name} : p \in Ids => heap'[p] = heap[p]
    BY <1>2, <1>4, PointedTo, Objects
  <2>2. NameSound(c)' /\ HdlSound(c)'
    BY <1>3, <2>1, Kept
  <2>3. UsbSound(c)'
    BY <1>3, <1>4 DEF UsbSound, UsesWinusb
  <2> QED BY <2>2, <2>3
<1>7. PointersSound' /\ NotShared'
  BY <1>2, <1>3, <1>4, <1>6, OneContext DEF OnlyAbout
<1>8. OnlyChild' /\ Parents'
  BY <1>2, <1>3, <1>4, Objects, SameFamilies
<1> QED BY <1>5, <1>7, <1>8

(* The same with a device list that stays allocated.                       *)
LEMMA StepLibusbListKept ==
  ASSUME IInv, NEW c \in Ctxs, ~UsesWinusb, LibusbListKept(c), Scanned(c),
         UNCHANGED <<current_backend, claim>>
  PROVE  IInv'
<1> USE DEF IInv
<1>1. PICK u \in FreeIds, l \in FreeIds : l # u /\
        /\ heap' = [heap EXCEPT ![u] = Obj("libusb_context", NULL), ![l] = Obj("libusb_list", u)]
        /\ ctx' = [ctx EXCEPT ![c].usb = u]
  BY DEF LibusbListKept
<1>2. u \in Ids /\ heap[u] = Free /\ l \in Ids /\ heap[l] = Free /\ l # u
  BY <1>1 DEF FreeIds
<1>3. /\ ctx' \in CtxType /\ \A d \in Ctxs \ {c} : ctx'[d] = ctx[d]
      /\ ctx'[c].usb = u /\ ctx'[c].hdl = ctx[c].hdl /\ ctx'[c].name = ctx[c].name
  BY <1>1, <1>2, SetUsb
<1>4. /\ heap' \in [Ids -> Object]
      /\ heap'[u].kind = "libusb_context" /\ heap'[l].kind = "libusb_list"
      /\ \A o \in Ids \ {u, l} : heap'[o] = heap[o]
  BY <1>1, <1>2, Objects DEF TypeOK
<1>5. TypeOK'
  BY <1>3, <1>4, PhaseTypes DEF TypeOK, CtxType
<1>6. NameSound(c)' /\ UsbSound(c)' /\ HdlSound(c)'
  <2>1. \A p \in {ctx[c].hdl, ctx[c].usb, ctx[c].name} : p \in Ids => heap'[p] = heap[p]
    BY <1>2, <1>4, PointedTo, Objects
  <2>2. NameSound(c)' /\ HdlSound(c)'
    BY <1>3, <2>1, Kept
  <2>3. UsbSound(c)'
    BY <1>3, <1>4 DEF UsbSound, UsesWinusb
  <2> QED BY <2>2, <2>3
<1>7. PointersSound' /\ NotShared'
  BY <1>2, <1>3, <1>4, <1>6, OneContext DEF OnlyAbout
<1>8. OnlyChild' /\ Parents'
  BY <1>2, <1>3, <1>4, Objects, SameFamilies
<1> QED BY <1>5, <1>7, <1>8

(* A device was opened: its handle is the only one of the new context.     *)
LEMMA StepLibusbFound ==
  ASSUME IInv, NEW c \in Ctxs, ~UsesWinusb, LibusbFound(c), Scanned(c),
         UNCHANGED <<current_backend, claim>>
  PROVE  IInv'
<1> USE DEF IInv
<1>1. PICK u \in FreeIds, h \in FreeIds : h # u /\
        /\ heap' = [heap EXCEPT ![u] = Obj("libusb_context", NULL),
                                ![h] = Obj("libusb_handle", u)]
        /\ ctx' = [ctx EXCEPT ![c].usb = u, ![c].hdl = h]
  BY DEF LibusbFound
<1>2. u \in Ids /\ heap[u] = Free /\ h \in Ids /\ heap[h] = Free /\ h # u
  BY <1>1 DEF FreeIds
<1>3. /\ ctx' \in CtxType /\ \A d \in Ctxs \ {c} : ctx'[d] = ctx[d]
      /\ ctx'[c].usb = u /\ ctx'[c].hdl = h /\ ctx'[c].name = ctx[c].name
  BY <1>1, <1>2 DEF TypeOK, CtxType
<1>4. /\ heap' \in [Ids -> Object] /\ heap'[u].kind = "libusb_context"
      /\ heap'[h].kind = "libusb_handle" /\ heap'[h].parent = u
      /\ \A o \in Ids \ {u, h} : heap'[o] = heap[o]
  BY <1>1, <1>2, Objects DEF TypeOK
<1>5. TypeOK'
  BY <1>3, <1>4, PhaseTypes DEF TypeOK, CtxType
<1>6. NameSound(c)' /\ UsbSound(c)' /\ HdlSound(c)'
  <2>1. ctx[c].name \in Ids => heap'[ctx[c].name] = heap[ctx[c].name]
    BY <1>2, <1>4, PointedTo, Objects
  <2>2. NameSound(c)'
    BY <1>3, <2>1, Kept
  <2>3. UsbSound(c)'
    BY <1>3, <1>4 DEF UsbSound, UsesWinusb
  <2>4. HdlSound(c)'
    BY <1>2, <1>3, <1>4, PointersAssumption DEF HdlSound, UsesWinusb
  <2> QED BY <2>2, <2>3, <2>4
<1>7. PointersSound' /\ NotShared'
  BY <1>2, <1>3, <1>4, <1>6, OneContext DEF OnlyAbout
<1>8. Parents'
  BY <1>2, <1>4, Objects DEF Parents
<1>9. OnlyChild'
  <2> SUFFICES ASSUME NEW d \in Ctxs, NEW k \in Ids,
                      heap'[k].kind = "libusb_handle", heap'[k].parent = ctx'[d].usb
               PROVE  ctx'[d].hdl = k
    BY DEF OnlyChild
  <2>1. CASE k = h
    <3>1. d = c
      <4>1. ctx[d].usb # u
        BY <1>2, Objects, PointedTo
      <4> QED BY <1>3, <1>4, <2>1, <4>1
    <3> QED BY <1>3, <2>1, <3>1
  <2>2. CASE k # h
    <3>1. heap[k] = heap'[k]
      BY <1>4, <2>2
    <3>2. heap[k].parent \in Ids /\ heap[heap[k].parent].kind = "libusb_context"
      BY <3>1 DEF Parents
    <3>3. d # c
      BY <1>2, <1>3, <3>1, <3>2, Objects
    <3> QED BY <1>3, <3>1, <3>3 DEF OnlyChild
  <2> QED BY <2>1, <2>2
<1> QED BY <1>5, <1>7, <1>8, <1>9

(* libusb_backend_init only claims.                                        *)
LEMMA StepLibusbInit ==
  ASSUME IInv, NEW c \in Ctxs, LibusbInit(c)
  PROVE  IInv'
<1> USE DEF IInv
<1>1. UNCHANGED <<current_backend, ctx, heap>> /\ ~UsesWinusb
  BY DEF LibusbInit
<1>2. claim' \in Ids \cup {NULL}
  <2>1. CASE UNCHANGED claim
    BY <2>1 DEF TypeOK
  <2>2. CASE ctx[c].hdl # NULL /\ Claimed(ctx[c].hdl)
    BY <1>1, <2>2, PointerTypes DEF Claimed, PointersSound, HdlSound
  <2> QED BY <2>1, <2>2 DEF LibusbInit
<1>3. TypeOK'
  BY <1>1, <1>2, PhaseTypes DEF TypeOK, LibusbInit
<1> QED
  BY <1>1, <1>3 DEF PointersSound, NameSound, UsbSound, HdlSound, UsesWinusb, NotShared,
                    OnlyChild, Parents

(* An exit frees the handle before the libusb context it came from.        *)
LEMMA StepLibusbExit ==
  ASSUME IInv, NEW c \in Ctxs, LibusbExit(c)
  PROVE  IInv'
<1> USE DEF IInv
<1>1. /\ ctx' = [ctx EXCEPT ![c].hdl = NULL, ![c].usb = NULL]
      /\ \A o \in Ids : heap'[o] = IF o \in {ctx[c].hdl, ctx[c].usb} THEN Free ELSE heap[o]
      /\ UNCHANGED <<current_backend, reopened>>
      /\ phase' = [phase EXCEPT ![c] = "closed"]
      /\ claim' = IF claim = ctx[c].hdl THEN NULL ELSE claim
  BY DEF LibusbExit
<1>2. /\ ctx' \in CtxType /\ \A d \in Ctxs \ {c} : ctx'[d] = ctx[d]
      /\ ctx'[c].hdl = NULL /\ ctx'[c].usb = NULL /\ ctx'[c].name = ctx[c].name
  BY <1>1, SetHdlUsb
<1>3. heap' \in [Ids -> Object]
  BY Objects DEF LibusbExit, TypeOK
<1>4. TypeOK'
  BY <1>1, <1>2, <1>3, PhaseTypes DEF TypeOK, CtxType
<1>5. NameSound(c)' /\ UsbSound(c)' /\ HdlSound(c)'
  <2>1. ctx[c].name \in Ids => heap'[ctx[c].name] = heap[ctx[c].name]
    BY <1>1, PointedTo
  <2>2. NameSound(c)'
    BY <1>1, <1>2, <2>1, Kept
  <2> QED BY <1>2, <2>2, PointersAssumption DEF UsbSound, HdlSound
<1>6. PointersSound' /\ NotShared'
  BY <1>1, <1>2, <1>5, PointersAssumption, OneContext DEF OnlyAbout
<1>7. ASSUME NEW h \in Ids, heap'[h].kind = "libusb_handle"
      PROVE  /\ heap'[h] = heap[h] /\ heap[h].kind = "libusb_handle"
             /\ heap[h].parent \in Ids /\ heap'[heap[h].parent].kind = "libusb_context"
  <2>1. heap'[h] = heap[h] /\ h # ctx[c].hdl
    BY <1>1, <1>7, Objects
  <2>2. heap[h].parent \in Ids /\ heap[heap[h].parent].kind = "libusb_context"
    BY <1>7, <2>1 DEF Parents
  <2>3. heap[h].parent # ctx[c].usb
    BY <1>7, <2>1 DEF OnlyChild
  <2>4. heap[h].parent # ctx[c].hdl
    BY <2>2, PointedTo
  <2> QED BY <1>1, <1>7, <2>1, <2>2, <2>3, <2>4
<1>8. Parents'
  BY <1>7 DEF Parents
<1>9. OnlyChild'
  <2> SUFFICES ASSUME NEW d \in Ctxs, NEW h \in Ids,
                      heap'[h].kind = "libusb_handle", heap'[h].parent = ctx'[d].usb
               PROVE  ctx'[d].hdl = h
    BY DEF OnlyChild
  <2>1. d # c
    BY <1>2, <1>7, PointersAssumption
  <2> QED BY <1>2, <1>7, <2>1 DEF OnlyChild
<1> QED BY <1>4, <1>6, <1>8, <1>9

(* With WinUSB no context has a libusb context.                            *)
LEMMA NoLibusb ==
  ASSUME TypeOK, PointersSound, UsesWinusb, NEW c \in Ctxs
  PROVE  ctx[c].usb = NULL
  BY DEF PointersSound, UsbSound

(* A WinUSB scan replaces the path.                                        *)
LEMMA StepWinusbScan ==
  ASSUME IInv, NEW c \in Ctxs, WinusbScan(c)
  PROVE  IInv'
<1> USE DEF IInv
<1>0. UsesWinusb /\ UNCHANGED <<current_backend, claim>> /\ Scanned(c)
  BY DEF WinusbScan
<1>1. CASE UNCHANGED <<ctx, heap>>
  <2>1. TypeOK'
    BY <1>0, <1>1, PhaseTypes DEF TypeOK
  <2> QED
    BY <1>0, <1>1, <2>1 DEF PointersSound, NameSound, UsbSound, HdlSound, UsesWinusb, NotShared,
                            OnlyChild, Parents
<1>2. ASSUME NEW n \in Ids \cup {NULL}, ctx' = [ctx EXCEPT ![c].name = n],
             heap' \in [Ids -> Object],
             \A o \in Ids \ {n} : heap'[o] = heap[o],
             n \in Ids => heap[n] = Free /\ heap'[n].kind = "name"
      PROVE  IInv'
  <2>1. /\ ctx' \in CtxType /\ \A d \in Ctxs \ {c} : ctx'[d] = ctx[d]
        /\ ctx'[c].name = n /\ ctx'[c].hdl = ctx[c].hdl /\ ctx'[c].usb = ctx[c].usb
    BY <1>2, SetName
  <2>2. TypeOK'
    BY <1>0, <1>2, <2>1, PhaseTypes DEF TypeOK, CtxType
  <2>3. \A p \in {ctx[c].hdl, ctx[c].usb} : p \in Ids => heap'[p] = heap[p]
    BY <1>2, PointedTo, Objects
  <2>4. UsbSound(c)' /\ HdlSound(c)'
    BY <1>0, <2>1, <2>3, Kept
  <2>5. NameSound(c)'
    BY <1>2, <2>1 DEF NameSound
  <2>6. PointersSound' /\ NotShared'
    BY <1>0, <1>2, <2>1, <2>4, <2>5, OneContext DEF OnlyAbout
  <2>7. OnlyChild' /\ Parents'
    BY <1>2, <2>1, Objects, SameFamilies
  <2> QED BY <2>2, <2>6, <2>7
<1>3. CASE ctx' = [ctx EXCEPT ![c].name = NULL] /\ UNCHANGED heap
  BY <1>2, <1>3, PointersAssumption DEF TypeOK
<1>4. CASE \E n \in FreeIds : /\ heap' = [heap EXCEPT ![n] = Obj("name", NULL)]
                              /\ ctx' = [ctx EXCEPT ![c].name = n]
  <2>1. PICK n \in FreeIds : /\ heap' = [heap EXCEPT ![n] = Obj("name", NULL)]
                             /\ ctx' = [ctx EXCEPT ![c].name = n]
    BY <1>4
  <2>2. n \in Ids /\ heap[n] = Free
    BY DEF FreeIds
  <2>3. /\ heap' \in [Ids -> Object] /\ heap'[n].kind = "name"
        /\ \A o \in Ids \ {n} : heap'[o] = heap[o]
    BY <2>1, <2>2, Objects DEF TypeOK
  <2> QED BY <1>2, <2>1, <2>2, <2>3
<1> QED BY <1>1, <1>3, <1>4 DEF WinusbScan

(* A WinUSB open replaces the handle.                                      *)
LEMMA StepWinusbInit ==
  ASSUME IInv, NEW c \in Ctxs, WinusbInit(c)
  PROVE  IInv'
<1> USE DEF IInv
<1>0. UsesWinusb /\ UNCHANGED <<current_backend, claim>> /\ Opened(c)
  BY DEF WinusbInit
<1>1. CASE UNCHANGED <<ctx, heap>>
  <2>1. TypeOK'
    BY <1>0, <1>1, PhaseTypes DEF TypeOK
  <2> QED
    BY <1>0, <1>1, <2>1 DEF PointersSound, NameSound, UsbSound, HdlSound, UsesWinusb, NotShared,
                            OnlyChild, Parents
<1>2. ASSUME NEW h \in Ids \cup {INVALID}, ctx' = [ctx EXCEPT ![c].hdl = h],
             heap' \in [Ids -> Object],
             \A o \in Ids \ {h} : heap'[o] = heap[o],
             h \in Ids => heap[h] = Free /\ heap'[h].kind = "win_handle"
      PROVE  IInv'
  <2>1. /\ ctx' \in CtxType /\ \A d \in Ctxs \ {c} : ctx'[d] = ctx[d]
        /\ ctx'[c].hdl = h /\ ctx'[c].usb = ctx[c].usb /\ ctx'[c].name = ctx[c].name
    BY <1>2, SetHdl
  <2>2. TypeOK'
    BY <1>0, <1>2, <2>1, PhaseTypes DEF TypeOK, CtxType
  <2>3. \A p \in {ctx[c].name, ctx[c].usb} : p \in Ids => heap'[p] = heap[p]
    BY <1>2, PointedTo, Objects
  <2>4. UsbSound(c)' /\ NameSound(c)'
    BY <1>0, <2>1, <2>3, Kept
  <2>5. HdlSound(c)'
    BY <1>0, <1>2, <2>1, PointersAssumption DEF HdlSound, UsesWinusb
  <2>6. PointersSound' /\ NotShared'
    BY <1>0, <1>2, <2>1, <2>4, <2>5, PointersAssumption, OneContext DEF OnlyAbout
  <2>7. OnlyChild' /\ Parents'
    BY <1>0, <1>2, <2>1, Objects, NoLibusb, SameFamilies
  <2> QED BY <2>2, <2>6, <2>7
<1>3. CASE ctx' = [ctx EXCEPT ![c].hdl = INVALID] /\ UNCHANGED heap
  BY <1>2, <1>3, PointersAssumption DEF TypeOK
<1>4. CASE \E h \in FreeIds : /\ heap' = [heap EXCEPT ![h] = Obj("win_handle", NULL)]
                              /\ ctx' = [ctx EXCEPT ![c].hdl = h]
  <2>1. PICK h \in FreeIds : /\ heap' = [heap EXCEPT ![h] = Obj("win_handle", NULL)]
                             /\ ctx' = [ctx EXCEPT ![c].hdl = h]
    BY <1>4
  <2>2. h \in Ids /\ heap[h] = Free
    BY DEF FreeIds
  <2>3. /\ heap' \in [Ids -> Object] /\ heap'[h].kind = "win_handle"
        /\ \A o \in Ids \ {h} : heap'[o] = heap[o]
    BY <2>1, <2>2, Objects DEF TypeOK
  <2> QED BY <1>2, <2>1, <2>2, <2>3
<1> QED BY <1>1, <1>3, <1>4 DEF WinusbInit

(* A WinUSB exit closes the handle and frees the path.                     *)
LEMMA StepWinusbExit ==
  ASSUME IInv, NEW c \in Ctxs, WinusbExit(c)
  PROVE  IInv'
<1> USE DEF IInv
<1> DEFINE hdl == IF ctx[c].hdl = INVALID THEN INVALID ELSE NULL
<1>0. UsesWinusb /\ UNCHANGED <<current_backend, claim, reopened>>
  BY DEF WinusbExit
<1>1. \A o \in Ids : heap'[o] = IF o \in {ctx[c].hdl, ctx[c].name} THEN Free ELSE heap[o]
  BY DEF WinusbExit
<1>2. /\ ctx' \in CtxType /\ \A d \in Ctxs \ {c} : ctx'[d] = ctx[d]
      /\ ctx'[c].hdl = hdl /\ ctx'[c].name = NULL /\ ctx'[c].usb = ctx[c].usb
  BY DEF WinusbExit, TypeOK, CtxType
<1>3. heap' \in [Ids -> Object]
  BY Objects DEF WinusbExit, TypeOK
<1>4. TypeOK'
  BY <1>0, <1>2, <1>3, PhaseTypes DEF TypeOK, CtxType, WinusbExit
<1>5. NameSound(c)' /\ UsbSound(c)' /\ HdlSound(c)'
  BY <1>0, <1>2, NoLibusb, PointersAssumption DEF NameSound, UsbSound, HdlSound, UsesWinusb
<1>6. PointersSound' /\ NotShared'
  BY <1>0, <1>1, <1>2, <1>5, PointersAssumption, OneContext DEF OnlyAbout
<1>7. /\ \A o \in Ids : heap'[o].kind = "libusb_handle" => heap'[o] = heap[o]
      /\ \A o \in Ids : heap[o].kind = "libusb_context" => heap'[o] = heap[o]
  BY <1>1, PointedTo, Objects
<1>8. OnlyChild' /\ Parents'
  BY <1>0, <1>2, <1>7, NoLibusb, SameFamilies
<1> QED BY <1>4, <1>6, <1>8

(* set_device_path may reuse the place of the path it freed.               *)
LEMMA StepSetDevicePath ==
  ASSUME IInv, NEW c \in Ctxs, SetDevicePath(c)
  PROVE  IInv'
<1> USE DEF IInv
<1> DEFINE freed == [o \in Ids |-> IF o = ctx[c].name THEN Free ELSE heap[o]]
<1>0. UNCHANGED <<current_backend, claim, reopened>>
      /\ phase' = [phase EXCEPT ![c] = IF @ = "closed" THEN "scanned" ELSE @]
  BY DEF SetDevicePath
<1>1. PICK n \in Ids \cup {NULL} :
        /\ ctx' = [ctx EXCEPT ![c].name = n]
        /\ n = NULL => heap' = freed
        /\ n # NULL => /\ n \in Ids /\ freed[n] = Free
                       /\ heap' = [freed EXCEPT ![n] = Obj("name", NULL)]
  BY PointersAssumption DEF SetDevicePath
<1>2. /\ ctx' \in CtxType /\ \A d \in Ctxs \ {c} : ctx'[d] = ctx[d]
      /\ ctx'[c].name = n /\ ctx'[c].hdl = ctx[c].hdl /\ ctx'[c].usb = ctx[c].usb
  BY <1>1, SetName
<1>3. freed \in [Ids -> Object]
  BY Objects DEF TypeOK
<1>4. heap' \in [Ids -> Object]
  BY <1>1, <1>3, Objects
<1>5. /\ \A o \in Ids \ {n} : heap'[o] = IF o = ctx[c].name THEN Free ELSE heap[o]
      /\ n \in Ids => /\ heap'[n].kind = "name"
                      /\ heap[n] = Free \/ n = ctx[c].name
  BY <1>1, <1>3, Objects, PointersAssumption
<1> HIDE DEF freed
<1>6. TypeOK'
  BY <1>0, <1>2, <1>4, PhaseTypes DEF TypeOK, CtxType
<1>7. \A p \in {ctx[c].hdl, ctx[c].usb} : p \in Ids => heap'[p] = heap[p]
  BY <1>5, PointedTo, Objects
<1>8. UsbSound(c)' /\ HdlSound(c)'
  BY <1>0, <1>2, <1>7, Kept
<1>9. NameSound(c)'
  BY <1>1, <1>2, <1>5 DEF NameSound
<1>10. PointersSound' /\ NotShared'
  BY <1>0, <1>2, <1>5, <1>8, <1>9, OneContext DEF OnlyAbout
<1>11. /\ \A o \in Ids : heap'[o].kind = "libusb_handle" => heap'[o] = heap[o]
       /\ \A o \in Ids : heap[o].kind = "libusb_context" => heap'[o] = heap[o]
  BY <1>5, PointedTo, Objects
<1>12. OnlyChild' /\ Parents'
  BY <1>2, <1>11, SameFamilies
<1> QED BY <1>6, <1>10, <1>12

(* The backend changes while every context is blank.                       *)
LEMMA StepSetUsbBackend ==
  ASSUME SwitchWhen = "blank", IInv, SetUsbBackend
  PROVE  IInv'
<1> USE DEF IInv
<1>1. \A c \in Ctxs : ctx[c].hdl = NULL /\ ctx[c].usb = NULL /\ ctx[c].name = NULL
  BY DEF SetUsbBackend, MaySwitch, Blank
<1>2. UNCHANGED <<ctx, phase, heap, claim, reopened>> /\ current_backend' \in BackendTypes
  BY DEF SetUsbBackend, SupportedBackend
<1>3. TypeOK'
  BY <1>2 DEF TypeOK
<1>4. PointersSound'
  BY <1>1, <1>2, PointersAssumption DEF PointersSound, NameSound, UsbSound, HdlSound
<1> QED BY <1>2, <1>3, <1>4 DEF NotShared, OnlyChild, Parents

(* Every step keeps the invariant.                                         *)
LEMMA IInvNext ==
  ASSUME SwitchWhen = "blank", IInv, [Next]_vars
  PROVE  IInv'
<1>1. CASE SetUsbBackend
  BY <1>1, StepSetUsbBackend
<1>2. ASSUME NEW c \in Ctxs, LibusbScan(c) \/ LibusbScanAt(c)
      PROVE  IInv'
  <2>1. ~UsesWinusb /\ Scanned(c) /\ UNCHANGED <<current_backend, claim>>
    BY <1>2 DEF LibusbScan, LibusbScanAt
  <2>2. LibusbNothingFound(c) \/ LibusbFound(c) \/ LibusbListKept(c)
    BY <1>2 DEF LibusbScan, LibusbScanAt
  <2> QED BY <2>1, <2>2, StepLibusbNothingFound, StepLibusbFound, StepLibusbListKept
<1>3. ASSUME NEW c \in Ctxs, LibusbInit(c) \/ LibusbExit(c)
      PROVE  IInv'
  BY <1>3, StepLibusbInit, StepLibusbExit
<1>4. ASSUME NEW c \in Ctxs, WinusbScan(c) \/ WinusbInit(c) \/ WinusbExit(c)
      PROVE  IInv'
  BY <1>4, StepWinusbScan, StepWinusbInit, StepWinusbExit
<1>5. ASSUME NEW c \in Ctxs, SetDevicePath(c)
      PROVE  IInv'
  BY <1>5, StepSetDevicePath
<1>6. CASE UNCHANGED vars
  BY <1>6 DEF vars, IInv, TypeOK, PointersSound, NameSound, UsbSound, HdlSound, UsesWinusb,
              NotShared, OnlyChild, Parents
<1> QED BY <1>1, <1>2, <1>3, <1>4, <1>5, <1>6 DEF Next

(* Type correctness, for every number of contexts and objects.  It rests   *)
(* on the soundness of the pointers: what libusb_claim_interface gets is a *)
(* handle and not INVALID_HANDLE_VALUE.                                    *)
THEOREM TypeCorrect ==
  ASSUME SwitchWhen = "blank"
  PROVE  Spec => []TypeOK
<1>1. IInv => TypeOK
  BY DEF IInv
<1>2. IInv /\ [Next]_vars => IInv'
  BY IInvNext
<1> QED BY IInvInit, <1>1, <1>2, PTL DEF Spec

(* Every call gets live objects of the kind it is for, which no other      *)
(* context has.                                                            *)
THEOREM PointersOwned ==
  ASSUME SwitchWhen = "blank"
  PROVE  Spec => []OwnObjects
<1>1. IInv => OwnObjects
  <2> SUFFICES ASSUME IInv, NEW c \in Ctxs
               PROVE  /\ ctx[c].name # NULL => KindOf(ctx[c].name) = "name"
                      /\ UsesWinusb => \/ ctx[c].hdl \in {NULL, INVALID}
                                       \/ KindOf(ctx[c].hdl) = "win_handle"
                      /\ ~UsesWinusb =>
                           /\ ctx[c].hdl # NULL => KindOf(ctx[c].hdl) = "libusb_handle"
                           /\ ctx[c].usb # NULL => KindOf(ctx[c].usb) = "libusb_context"
    BY DEF IInv, OwnObjects, RightApi
  <2>1. NameSound(c) /\ UsbSound(c) /\ HdlSound(c) /\ TypeOK
    BY DEF IInv, PointersSound
  <2> QED BY <2>1, PointerTypes DEF NameSound, UsbSound, HdlSound, KindOf
<1>2. IInv /\ [Next]_vars => IInv'
  BY IInvNext
<1> QED BY IInvInit, <1>1, <1>2, PTL DEF Spec

(* No libusb handle outlives the libusb context it was opened in.          *)
THEOREM ParentsOutlive ==
  ASSUME SwitchWhen = "blank"
  PROVE  Spec => []ParentOutlives
<1>1. IInv => ParentOutlives
  BY DEF IInv, Parents, ParentOutlives, KindOf
<1>2. IInv /\ [Next]_vars => IInv'
  BY IInvNext
<1> QED BY IInvInit, <1>1, <1>2, PTL DEF Spec

----------------------------------------------------------------------------
(* Nothing is lost, and the interface is a lock.                           *)

(* What a context has when it is closed and when it is scanned, as long as *)
(* no context was scanned or opened again: nothing that the next scan or   *)
(* open would overwrite.                                                   *)
PhaseInv ==
  ~reopened => \A c \in Ctxs :
    /\ phase[c] = "closed" => /\ ctx[c].hdl \notin Ids /\ ctx[c].usb = NULL
                              /\ UsesWinusb => ctx[c].name = NULL
    /\ phase[c] = "scanned" /\ UsesWinusb => ctx[c].hdl \notin Ids

(* Who has the interface is an open libusb handle.                         *)
ClaimLive == claim # NULL => claim \in Ids /\ heap[claim].kind = "libusb_handle"

FullInv == IInv /\ PhaseInv /\ ClaimLive /\ NothingLost

Ptrs(r) == {r.hdl, r.usb, r.name}
Live(object) == object.kind \notin {"free", "libusb_list"}

(* A step about context c loses nothing if what is live after it is among  *)
(* the pointers of c, or was not before and stays.                         *)
LEMMA LosesNothing ==
  ASSUME NEW c \in Ctxs, ~reopened, NothingLost,
         \A d \in Ctxs \ {c} : ctx'[d] = ctx[d],
         \A o \in Ids : Live(heap'[o]) =>
           o \in Ptrs(ctx'[c]) \/ (heap'[o] = heap[o] /\ o \notin Ptrs(ctx[c]))
  PROVE  NothingLost'
<1> SUFFICES ASSUME NEW o \in Ids, Live(heap'[o])
             PROVE  \E d \in Ctxs : o \in Ptrs(ctx'[d])
  BY DEF NothingLost, Live, Ptrs
<1>1. CASE o \in Ptrs(ctx'[c])
  BY <1>1
<1>2. CASE heap'[o] = heap[o] /\ o \notin Ptrs(ctx[c])
  <2>1. PICK d \in Ctxs : o \in Ptrs(ctx[d])
    BY <1>2 DEF NothingLost, Live, Ptrs
  <2>2. d # c
    BY <1>2, <2>1
  <2> QED BY <2>1, <2>2 DEF Ptrs
<1> QED BY <1>1, <1>2

(* After a second scan or open nothing is claimed.                         *)
LEMMA ReopenedLoses == ASSUME reopened' PROVE NothingLost'
  BY DEF NothingLost

(* The phases and the other contexts' share of the invariant.              *)
LEMMA OthersPhase ==
  ASSUME TypeOK, PhaseInv, NEW c \in Ctxs, UNCHANGED current_backend,
         reopened => reopened',
         \A d \in Ctxs \ {c} : ctx'[d] = ctx[d] /\ phase'[d] = phase[d],
         ~reopened' =>
           /\ phase'[c] = "closed" => /\ ctx'[c].hdl \notin Ids /\ ctx'[c].usb = NULL
                                      /\ UsesWinusb => ctx'[c].name = NULL
           /\ phase'[c] = "scanned" /\ UsesWinusb => ctx'[c].hdl \notin Ids
  PROVE  PhaseInv'
<1>1. UsesWinusb' = UsesWinusb
  BY DEF UsesWinusb
<1> QED BY <1>1 DEF PhaseInv

(* What the phases become.                                                 *)
LEMMA PhaseSteps ==
  ASSUME TypeOK, NEW c \in Ctxs
  PROVE  /\ Scanned(c) => /\ phase'[c] = "scanned" /\ \A d \in Ctxs \ {c} : phase'[d] = phase[d]
                          /\ reopened' = (reopened \/ phase[c] # "closed")
         /\ Opened(c) => /\ phase'[c] = "opened" /\ \A d \in Ctxs \ {c} : phase'[d] = phase[d]
                         /\ reopened' = (reopened \/ phase[c] # "scanned")
         /\ phase' = [phase EXCEPT ![c] = "closed"]
              => phase'[c] = "closed" /\ \A d \in Ctxs \ {c} : phase'[d] = phase[d]
         /\ phase' = [phase EXCEPT ![c] = IF @ = "closed" THEN "scanned" ELSE @]
              => /\ phase'[c] = IF phase[c] = "closed" THEN "scanned" ELSE phase[c]
                 /\ \A d \in Ctxs \ {c} : phase'[d] = phase[d]
  BY DEF TypeOK, Scanned, Opened

(* What each action does to the pointers and the objects, in the terms     *)
(* that matter here.                                                       *)
ScanEffect(c) ==
  /\ \A d \in Ctxs \ {c} : ctx'[d] = ctx[d]
  /\ ctx'[c].name = ctx[c].name
  /\ ctx'[c].hdl = ctx[c].hdl \/ (ctx'[c].hdl \in Ids /\ heap[ctx'[c].hdl] = Free)
  /\ \A o \in Ids : heap[o] = Free \/ heap'[o] = heap[o]
  /\ \A o \in Ids : \/ heap'[o] = heap[o] \/ heap'[o].kind = "libusb_list"
                    \/ o \in {ctx'[c].hdl, ctx'[c].usb}

(* All three endings of a libusb scan have that effect.                    *)
LEMMA LibusbScanEffect ==
  ASSUME TypeOK, NEW c \in Ctxs,
         LibusbNothingFound(c) \/ LibusbFound(c) \/ LibusbListKept(c)
  PROVE  ScanEffect(c)
<1>1. CASE LibusbNothingFound(c)
  <2>1. PICK u \in FreeIds : /\ heap' = [heap EXCEPT ![u] = Obj("libusb_context", NULL)]
                             /\ ctx' = [ctx EXCEPT ![c].usb = u]
    BY <1>1 DEF LibusbNothingFound
  <2>2. u \in Ids /\ heap[u] = Free
    BY DEF FreeIds
  <2>3. \A d \in Ctxs \ {c} : ctx'[d] = ctx[d]
    BY <2>1, <2>2, SetUsb
  <2>4. ctx'[c].usb = u /\ ctx'[c].hdl = ctx[c].hdl /\ ctx'[c].name = ctx[c].name
    BY <2>1, <2>2, SetUsb
  <2>5. \A o \in Ids \ {u} : heap'[o] = heap[o]
    BY <2>1, <2>2 DEF TypeOK
  <2> QED BY <2>2, <2>3, <2>4, <2>5 DEF ScanEffect
<1>2. CASE LibusbListKept(c)
  <2>1. PICK u \in FreeIds, l \in FreeIds : l # u /\
          /\ heap' = [heap EXCEPT ![u] = Obj("libusb_context", NULL), ![l] = Obj("libusb_list", u)]
          /\ ctx' = [ctx EXCEPT ![c].usb = u]
    BY <1>2 DEF LibusbListKept
  <2>2. u \in Ids /\ heap[u] = Free /\ l \in Ids /\ heap[l] = Free /\ l # u
    BY <2>1 DEF FreeIds
  <2>3. \A d \in Ctxs \ {c} : ctx'[d] = ctx[d]
    BY <2>1, <2>2, SetUsb
  <2>4. ctx'[c].usb = u /\ ctx'[c].hdl = ctx[c].hdl /\ ctx'[c].name = ctx[c].name
    BY <2>1, <2>2, SetUsb
  <2>5. heap'[l].kind = "libusb_list" /\ \A o \in Ids \ {u, l} : heap'[o] = heap[o]
    BY <2>1, <2>2, Objects DEF TypeOK
  <2> QED BY <2>2, <2>3, <2>4, <2>5 DEF ScanEffect
<1>3. CASE LibusbFound(c)
  <2>1. PICK u \in FreeIds, h \in FreeIds : h # u /\
          /\ heap' = [heap EXCEPT ![u] = Obj("libusb_context", NULL),
                                  ![h] = Obj("libusb_handle", u)]
          /\ ctx' = [ctx EXCEPT ![c].usb = u, ![c].hdl = h]
    BY <1>3 DEF LibusbFound
  <2>2. u \in Ids /\ heap[u] = Free /\ h \in Ids /\ heap[h] = Free /\ h # u
    BY <2>1 DEF FreeIds
  <2>3. \A d \in Ctxs \ {c} : ctx'[d] = ctx[d]
    BY <2>1, <2>2 DEF TypeOK
  <2>4. ctx'[c].usb = u /\ ctx'[c].hdl = h /\ ctx'[c].name = ctx[c].name
    BY <2>1, <2>2 DEF TypeOK
  <2>5. \A o \in Ids \ {u, h} : heap'[o] = heap[o]
    BY <2>1, <2>2 DEF TypeOK
  <2> QED BY <2>2, <2>3, <2>4, <2>5 DEF ScanEffect
<1> QED BY <1>1, <1>2, <1>3

(* A closed context has neither handle nor libusb context that a scan      *)
(* could replace.                                                          *)
LEMMA FullLibusbScan ==
  ASSUME FullInv, NEW c \in Ctxs, LibusbScan(c) \/ LibusbScanAt(c)
  PROVE  PhaseInv' /\ ClaimLive' /\ NothingLost'
<1> USE DEF FullInv, IInv
<1>1. ~UsesWinusb /\ Scanned(c) /\ UNCHANGED <<current_backend, claim>> /\ ScanEffect(c)
  BY LibusbScanEffect DEF LibusbScan, LibusbScanAt
<1>2. /\ phase'[c] = "scanned" /\ \A d \in Ctxs \ {c} : phase'[d] = phase[d]
      /\ reopened' = (reopened \/ phase[c] # "closed")
  BY <1>1, PhaseSteps
<1>3. PhaseInv'
  BY <1>1, <1>2, OthersPhase DEF ScanEffect
<1>4. ClaimLive'
  BY <1>1, Objects DEF ClaimLive, ScanEffect
<1>5. ASSUME ~reopened' PROVE NothingLost'
  <2>1. ~reopened /\ ctx[c].hdl \notin Ids /\ ctx[c].usb = NULL
    BY <1>2, <1>5 DEF PhaseInv
  <2>2. \A o \in Ids : Live(heap'[o]) =>
          o \in Ptrs(ctx'[c]) \/ (heap'[o] = heap[o] /\ o \notin Ptrs(ctx[c]))
    <3> SUFFICES ASSUME NEW o \in Ids, Live(heap'[o])
                 PROVE  o \in Ptrs(ctx'[c]) \/ (heap'[o] = heap[o] /\ o \notin Ptrs(ctx[c]))
      OBVIOUS
    <3>1. o \in Ptrs(ctx'[c]) \/ heap'[o] = heap[o]
      BY <1>1 DEF ScanEffect, Ptrs, Live
    <3>2. o \in Ptrs(ctx[c]) => o \in Ptrs(ctx'[c])
      BY <1>1, <2>1, PointersAssumption DEF ScanEffect, Ptrs
    <3> QED BY <3>1, <3>2
  <2>3. \A d \in Ctxs \ {c} : ctx'[d] = ctx[d]
    BY <1>1 DEF ScanEffect
  <2> QED BY <2>1, <2>2, <2>3, LosesNothing, Zenon
<1>6. ASSUME reopened' PROVE NothingLost'
  BY <1>6, ReopenedLoses
<1> QED BY <1>3, <1>4, <1>5, <1>6

(* An open makes and frees nothing; what it claims is live.                *)
LEMMA FullLibusbInit ==
  ASSUME FullInv, NEW c \in Ctxs, LibusbInit(c)
  PROVE  PhaseInv' /\ ClaimLive' /\ NothingLost'
<1> USE DEF FullInv, IInv
<1>1. ~UsesWinusb /\ Opened(c) /\ UNCHANGED <<current_backend, ctx, heap>>
  BY DEF LibusbInit
<1>2. /\ phase'[c] = "opened" /\ \A d \in Ctxs \ {c} : phase'[d] = phase[d]
      /\ reopened' = (reopened \/ phase[c] # "scanned")
  BY <1>1, PhaseSteps
<1>3. PhaseInv'
  BY <1>1, <1>2, OthersPhase
<1>4. ClaimLive'
  <2>1. CASE UNCHANGED claim
    BY <1>1, <2>1 DEF ClaimLive
  <2>2. CASE ctx[c].hdl # NULL /\ Claimed(ctx[c].hdl)
    BY <1>1, <2>2, PointerTypes DEF Claimed, PointersSound, HdlSound, ClaimLive
  <2> QED BY <2>1, <2>2 DEF LibusbInit
<1>5. NothingLost'
  BY <1>1, <1>2 DEF NothingLost
<1> QED BY <1>3, <1>4, <1>5

(* What an exit does, field by field.                                      *)
LEMMA LibusbExitEffect ==
  ASSUME TypeOK, NEW c \in Ctxs, LibusbExit(c)
  PROVE  /\ \A d \in Ctxs \ {c} : ctx'[d] = ctx[d] /\ phase'[d] = phase[d]
         /\ ctx'[c].hdl = NULL /\ ctx'[c].usb = NULL /\ ctx'[c].name = ctx[c].name
         /\ \A o \in Ids : heap'[o] = IF o \in {ctx[c].hdl, ctx[c].usb} THEN Free ELSE heap[o]
         /\ ~UsesWinusb /\ UNCHANGED <<current_backend, reopened>> /\ phase'[c] = "closed"
         /\ claim' = IF claim = ctx[c].hdl THEN NULL ELSE claim
<1>1. ctx' = [ctx EXCEPT ![c].hdl = NULL, ![c].usb = NULL]
      /\ phase' = [phase EXCEPT ![c] = "closed"]
  BY DEF LibusbExit
<1>2. \A o \in Ids : heap'[o] = IF o \in {ctx[c].hdl, ctx[c].usb} THEN Free ELSE heap[o]
  BY DEF LibusbExit
<1>3. /\ ~UsesWinusb /\ UNCHANGED <<current_backend, reopened>>
      /\ claim' = IF claim = ctx[c].hdl THEN NULL ELSE claim
  BY DEF LibusbExit
<1>4. /\ \A d \in Ctxs \ {c} : ctx'[d] = ctx[d]
      /\ ctx'[c].hdl = NULL /\ ctx'[c].usb = NULL /\ ctx'[c].name = ctx[c].name
  BY <1>1 DEF TypeOK
<1>5. phase'[c] = "closed" /\ \A d \in Ctxs \ {c} : phase'[d] = phase[d]
  BY <1>1, PhaseSteps
<1> QED BY <1>2, <1>3, <1>4, <1>5, Zenon

(* What stays live after an exit was not of this context.                  *)
LEMMA FullLibusbExit ==
  ASSUME FullInv, NEW c \in Ctxs, LibusbExit(c)
  PROVE  PhaseInv' /\ ClaimLive' /\ NothingLost'
<1> USE DEF FullInv, IInv
<1>1. PhaseInv'
  BY LibusbExitEffect, OthersPhase, PointersAssumption
<1>2. ClaimLive'
  <2> SUFFICES ASSUME claim' # NULL PROVE claim' \in Ids /\ heap'[claim'].kind = "libusb_handle"
    BY DEF ClaimLive
  <2>1. claim' = claim /\ claim # ctx[c].hdl /\ claim \in Ids
        /\ heap[claim].kind = "libusb_handle"
    BY LibusbExitEffect DEF ClaimLive
  <2>2. claim # ctx[c].usb
    BY <2>1, PointedTo
  <2> QED BY <2>1, <2>2, LibusbExitEffect
<1>3. ASSUME ~reopened PROVE NothingLost'
  <2>1. \A o \in Ids : Live(heap'[o]) =>
          o \in Ptrs(ctx'[c]) \/ (heap'[o] = heap[o] /\ o \notin Ptrs(ctx[c]))
    <3> SUFFICES ASSUME NEW o \in Ids, Live(heap'[o])
                 PROVE  o \in Ptrs(ctx'[c]) \/ (heap'[o] = heap[o] /\ o \notin Ptrs(ctx[c]))
      OBVIOUS
    <3>1. heap'[o] = heap[o] /\ o # ctx[c].hdl /\ o # ctx[c].usb
      BY LibusbExitEffect, Objects DEF Live
    <3> QED BY <3>1, LibusbExitEffect DEF Ptrs
  <2>2. \A d \in Ctxs \ {c} : ctx'[d] = ctx[d]
    BY LibusbExitEffect
  <2> QED BY <1>3, <2>1, <2>2, LosesNothing, Zenon
<1>4. ASSUME reopened PROVE NothingLost'
  BY <1>4, LibusbExitEffect, ReopenedLoses
<1> QED BY <1>1, <1>2, <1>3, <1>4

(* A WinUSB scan and open only store new objects.                          *)
WinEffect(c) ==
  /\ \A d \in Ctxs \ {c} : ctx'[d] = ctx[d]
  /\ ctx'[c].usb = ctx[c].usb
  /\ \A o \in Ids : heap'[o] = heap[o]
                     \/ (heap[o] = Free /\ o \in {ctx'[c].hdl, ctx'[c].name})

(* The scan of WinUSB.                                                     *)
LEMMA WinusbScanEffect ==
  ASSUME TypeOK, NEW c \in Ctxs, WinusbScan(c)
  PROVE  WinEffect(c) /\ ctx'[c].hdl = ctx[c].hdl
<1>1. CASE UNCHANGED <<ctx, heap>>
  BY <1>1 DEF WinEffect
<1>2. CASE ctx' = [ctx EXCEPT ![c].name = NULL] /\ UNCHANGED heap
  BY <1>2, SetName DEF WinEffect
<1>3. CASE \E n \in FreeIds : /\ heap' = [heap EXCEPT ![n] = Obj("name", NULL)]
                              /\ ctx' = [ctx EXCEPT ![c].name = n]
  <2>1. PICK n \in FreeIds : /\ heap' = [heap EXCEPT ![n] = Obj("name", NULL)]
                             /\ ctx' = [ctx EXCEPT ![c].name = n]
    BY <1>3
  <2>2. n \in Ids /\ heap[n] = Free
    BY DEF FreeIds
  <2>3. \A o \in Ids \ {n} : heap'[o] = heap[o]
    BY <2>1, <2>2 DEF TypeOK
  <2>4. /\ \A d \in Ctxs \ {c} : ctx'[d] = ctx[d]
        /\ ctx'[c].name = n /\ ctx'[c].hdl = ctx[c].hdl /\ ctx'[c].usb = ctx[c].usb
    BY <2>1, <2>2, SetName
  <2> QED BY <2>2, <2>3, <2>4 DEF WinEffect
<1> QED BY <1>1, <1>2, <1>3 DEF WinusbScan

(* The open of WinUSB.                                                     *)
LEMMA WinusbInitEffect ==
  ASSUME TypeOK, NEW c \in Ctxs, WinusbInit(c)
  PROVE  /\ WinEffect(c) /\ ctx'[c].name = ctx[c].name
         /\ \/ ctx'[c].hdl \in {ctx[c].hdl, INVALID}
            \/ ctx'[c].hdl \in Ids /\ heap[ctx'[c].hdl] = Free
<1>1. CASE UNCHANGED <<ctx, heap>>
  BY <1>1 DEF WinEffect
<1>2. CASE ctx' = [ctx EXCEPT ![c].hdl = INVALID] /\ UNCHANGED heap
  BY <1>2, SetHdl DEF WinEffect
<1>3. CASE \E h \in FreeIds : /\ heap' = [heap EXCEPT ![h] = Obj("win_handle", NULL)]
                              /\ ctx' = [ctx EXCEPT ![c].hdl = h]
  <2>1. PICK h \in FreeIds : /\ heap' = [heap EXCEPT ![h] = Obj("win_handle", NULL)]
                             /\ ctx' = [ctx EXCEPT ![c].hdl = h]
    BY <1>3
  <2>2. h \in Ids /\ heap[h] = Free
    BY DEF FreeIds
  <2>3. \A o \in Ids \ {h} : heap'[o] = heap[o]
    BY <2>1, <2>2 DEF TypeOK
  <2>4. /\ \A d \in Ctxs \ {c} : ctx'[d] = ctx[d]
        /\ ctx'[c].hdl = h /\ ctx'[c].name = ctx[c].name /\ ctx'[c].usb = ctx[c].usb
    BY <2>1, <2>2, SetHdl
  <2> QED BY <2>2, <2>3, <2>4 DEF WinEffect
<1> QED BY <1>1, <1>2, <1>3 DEF WinusbInit

(* A closed context has no path that a scan could replace.                 *)
LEMMA FullWinusbScan ==
  ASSUME FullInv, NEW c \in Ctxs, WinusbScan(c)
  PROVE  PhaseInv' /\ ClaimLive' /\ NothingLost'
<1> USE DEF FullInv, IInv
<1>1. /\ UsesWinusb /\ Scanned(c) /\ UNCHANGED <<current_backend, claim>>
      /\ WinEffect(c) /\ ctx'[c].hdl = ctx[c].hdl
  BY WinusbScanEffect DEF WinusbScan
<1>2. /\ phase'[c] = "scanned" /\ \A d \in Ctxs \ {c} : phase'[d] = phase[d]
      /\ reopened' = (reopened \/ phase[c] # "closed")
  BY <1>1, PhaseSteps
<1>3. ASSUME ~reopened'
      PROVE  ~reopened /\ ctx[c].hdl \notin Ids /\ ctx[c].name = NULL
  BY <1>1, <1>2, <1>3 DEF PhaseInv
<1>4. PhaseInv'
  BY <1>1, <1>2, <1>3, OthersPhase DEF WinEffect
<1>5. ClaimLive'
  BY <1>1, Objects DEF ClaimLive, WinEffect
<1>6. ASSUME ~reopened' PROVE NothingLost'
  <2>1. \A o \in Ids : Live(heap'[o]) =>
          o \in Ptrs(ctx'[c]) \/ (heap'[o] = heap[o] /\ o \notin Ptrs(ctx[c]))
    BY <1>1, <1>3, <1>6, PointersAssumption DEF WinEffect, Ptrs
  <2>2. \A d \in Ctxs \ {c} : ctx'[d] = ctx[d]
    BY <1>1 DEF WinEffect
  <2> QED BY <1>3, <1>6, <2>1, <2>2, LosesNothing, Zenon
<1>7. ASSUME reopened' PROVE NothingLost'
  BY <1>7, ReopenedLoses
<1> QED BY <1>4, <1>5, <1>6, <1>7

(* A scanned context has no handle that an open could replace.             *)
LEMMA FullWinusbInit ==
  ASSUME FullInv, NEW c \in Ctxs, WinusbInit(c)
  PROVE  PhaseInv' /\ ClaimLive' /\ NothingLost'
<1> USE DEF FullInv, IInv
<1>1. /\ UsesWinusb /\ Opened(c) /\ UNCHANGED <<current_backend, claim>>
      /\ WinEffect(c) /\ ctx'[c].name = ctx[c].name
  BY WinusbInitEffect DEF WinusbInit
<1>2. /\ phase'[c] = "opened" /\ \A d \in Ctxs \ {c} : phase'[d] = phase[d]
      /\ reopened' = (reopened \/ phase[c] # "scanned")
  BY <1>1, PhaseSteps
<1>3. ASSUME ~reopened'
      PROVE  ~reopened /\ ctx[c].hdl \notin Ids
  BY <1>1, <1>2, <1>3 DEF PhaseInv
<1>4. PhaseInv'
  BY <1>1, <1>2, OthersPhase DEF WinEffect
<1>5. ClaimLive'
  BY <1>1, Objects DEF ClaimLive, WinEffect
<1>6. ASSUME ~reopened' PROVE NothingLost'
  <2>1. \A o \in Ids : Live(heap'[o]) =>
          o \in Ptrs(ctx'[c]) \/ (heap'[o] = heap[o] /\ o \notin Ptrs(ctx[c]))
    BY <1>1, <1>3, <1>6, PointersAssumption DEF WinEffect, Ptrs
  <2>2. \A d \in Ctxs \ {c} : ctx'[d] = ctx[d]
    BY <1>1 DEF WinEffect
  <2> QED BY <1>3, <1>6, <2>1, <2>2, LosesNothing, Zenon
<1>7. ASSUME reopened' PROVE NothingLost'
  BY <1>7, ReopenedLoses
<1> QED BY <1>4, <1>5, <1>6, <1>7

(* The exit of WinUSB.                                                     *)
LEMMA WinusbExitEffect ==
  ASSUME TypeOK, NEW c \in Ctxs, WinusbExit(c)
  PROVE  /\ \A d \in Ctxs \ {c} : ctx'[d] = ctx[d]
         /\ \A d \in Ctxs \ {c} : phase'[d] = phase[d]
         /\ ctx'[c].hdl \in {NULL, INVALID} /\ ctx'[c].name = NULL /\ ctx'[c].usb = ctx[c].usb
         /\ \A o \in Ids : heap'[o] = IF o \in {ctx[c].hdl, ctx[c].name} THEN Free ELSE heap[o]
         /\ UsesWinusb /\ UNCHANGED <<current_backend, claim, reopened>>
         /\ phase'[c] = "closed"
<1>1. \A d \in Ctxs \ {c} : ctx'[d] = ctx[d]
  BY DEF WinusbExit, TypeOK
<1>2. ctx'[c].hdl \in {NULL, INVALID} /\ ctx'[c].name = NULL /\ ctx'[c].usb = ctx[c].usb
  BY DEF WinusbExit, TypeOK
<1>3. \A o \in Ids : heap'[o] = IF o \in {ctx[c].hdl, ctx[c].name} THEN Free ELSE heap[o]
  BY DEF WinusbExit
<1>4. phase'[c] = "closed" /\ \A d \in Ctxs \ {c} : phase'[d] = phase[d]
  BY PhaseSteps DEF WinusbExit
<1>5. UsesWinusb /\ UNCHANGED <<current_backend, claim, reopened>>
  BY DEF WinusbExit
<1> QED BY <1>1, <1>2, <1>3, <1>4, <1>5, Zenon

(* Its exit frees what the context has.                                    *)
LEMMA FullWinusbExit ==
  ASSUME FullInv, NEW c \in Ctxs, WinusbExit(c)
  PROVE  PhaseInv' /\ ClaimLive' /\ NothingLost'
<1> USE DEF FullInv, IInv
<1>0. ctx[c].usb = NULL
  BY WinusbExitEffect, NoLibusb
<1>1. PhaseInv'
  BY <1>0, WinusbExitEffect, OthersPhase, PointersAssumption
<1>2. ClaimLive'
  <2> SUFFICES ASSUME claim # NULL PROVE claim \in Ids /\ heap'[claim].kind = "libusb_handle"
    BY WinusbExitEffect DEF ClaimLive
  <2>1. claim \in Ids /\ heap[claim].kind = "libusb_handle"
    BY DEF ClaimLive
  <2>2. claim # ctx[c].hdl /\ claim # ctx[c].name
    BY <2>1, PointedTo, WinusbExitEffect DEF PointersSound, HdlSound
  <2> QED BY <2>1, <2>2, WinusbExitEffect
<1>3. ASSUME ~reopened PROVE NothingLost'
  <2>1. \A o \in Ids : Live(heap'[o]) =>
          o \in Ptrs(ctx'[c]) \/ (heap'[o] = heap[o] /\ o \notin Ptrs(ctx[c]))
    <3> SUFFICES ASSUME NEW o \in Ids, Live(heap'[o])
                 PROVE  o \in Ptrs(ctx'[c]) \/ (heap'[o] = heap[o] /\ o \notin Ptrs(ctx[c]))
      OBVIOUS
    <3>1. heap'[o] = heap[o] /\ o # ctx[c].hdl /\ o # ctx[c].name
      BY WinusbExitEffect, Objects DEF Live
    <3> QED BY <1>0, <3>1, PointersAssumption DEF Ptrs
  <2>2. \A d \in Ctxs \ {c} : ctx'[d] = ctx[d]
    BY WinusbExitEffect
  <2> QED BY <1>3, <2>1, <2>2, LosesNothing, Zenon
<1>4. ASSUME reopened PROVE NothingLost'
  BY <1>4, WinusbExitEffect, ReopenedLoses
<1> QED BY <1>1, <1>2, <1>3, <1>4

(* set_device_path replaces the path of c by a new one or by NULL.         *)
LEMMA SetDevicePathEffect ==
  ASSUME TypeOK, NEW c \in Ctxs, SetDevicePath(c)
  PROVE  /\ \A d \in Ctxs \ {c} : ctx'[d] = ctx[d]
         /\ ctx'[c].hdl = ctx[c].hdl /\ ctx'[c].usb = ctx[c].usb
         /\ \A o \in Ids : \/ o = ctx'[c].name
                           \/ heap'[o] = IF o = ctx[c].name THEN Free ELSE heap[o]
         /\ \A o \in Ids : o = ctx'[c].name /\ o # ctx[c].name => heap[o] = Free
         /\ UNCHANGED <<current_backend, claim, reopened>>
         /\ phase'[c] = IF phase[c] = "closed" THEN "scanned" ELSE phase[c]
         /\ \A d \in Ctxs \ {c} : phase'[d] = phase[d]
<1> DEFINE freed == [o \in Ids |-> IF o = ctx[c].name THEN Free ELSE heap[o]]
<1>1. PICK n \in Ids \cup {NULL} :
        /\ ctx' = [ctx EXCEPT ![c].name = n]
        /\ n = NULL => heap' = freed
        /\ n # NULL => /\ n \in Ids /\ freed[n] = Free
                       /\ heap' = [freed EXCEPT ![n] = Obj("name", NULL)]
  BY PointersAssumption DEF SetDevicePath
<1>2. /\ \A d \in Ctxs \ {c} : ctx'[d] = ctx[d]
      /\ ctx'[c].name = n /\ ctx'[c].hdl = ctx[c].hdl /\ ctx'[c].usb = ctx[c].usb
  BY <1>1, SetName
<1>3. \A o \in Ids \ {n} : heap'[o] = IF o = ctx[c].name THEN Free ELSE heap[o]
  BY <1>1
<1>4. n \in Ids /\ n # ctx[c].name => heap[n] = Free
  BY <1>1, PointersAssumption
<1>5. /\ phase'[c] = IF phase[c] = "closed" THEN "scanned" ELSE phase[c]
      /\ \A d \in Ctxs \ {c} : phase'[d] = phase[d]
  BY PhaseSteps DEF SetDevicePath
<1>6. UNCHANGED <<current_backend, claim, reopened>>
  BY DEF SetDevicePath
<1> HIDE DEF freed
<1> QED BY <1>2, <1>3, <1>4, <1>5, <1>6

(* The old path is freed, the new one stored.                              *)
LEMMA FullSetDevicePath ==
  ASSUME FullInv, NEW c \in Ctxs, SetDevicePath(c)
  PROVE  PhaseInv' /\ ClaimLive' /\ NothingLost'
<1> USE DEF FullInv, IInv
<1>1. PhaseInv'
  <2>1. ASSUME ~reopened', phase'[c] = "scanned", UsesWinusb PROVE ctx'[c].hdl \notin Ids
    BY <2>1, SetDevicePathEffect DEF PhaseInv
  <2>2. phase'[c] # "closed"
    BY SetDevicePathEffect
  <2> QED BY <2>1, <2>2, SetDevicePathEffect, OthersPhase
<1>2. ClaimLive'
  <2> SUFFICES ASSUME claim # NULL PROVE claim \in Ids /\ heap'[claim].kind = "libusb_handle"
    BY SetDevicePathEffect DEF ClaimLive
  <2>1. claim \in Ids /\ heap[claim].kind = "libusb_handle"
    BY DEF ClaimLive
  <2>2. claim # ctx[c].name /\ claim # ctx'[c].name
    BY <2>1, PointedTo, SetDevicePathEffect, Objects
  <2> QED BY <2>1, <2>2, SetDevicePathEffect
<1>3. ASSUME ~reopened PROVE NothingLost'
  <2> SUFFICES ASSUME NEW o \in Ids, Live(heap'[o])
               PROVE  \E d \in Ctxs : o \in Ptrs(ctx'[d])
    BY DEF NothingLost, Live, Ptrs
  <2>1. CASE o = ctx'[c].name
    BY <2>1 DEF Ptrs
  <2>2. CASE o # ctx'[c].name
    <3>1. heap'[o] = heap[o] /\ o # ctx[c].name
      BY <2>2, SetDevicePathEffect, Objects DEF Live
    <3>2. PICK d \in Ctxs : o \in Ptrs(ctx[d])
      BY <1>3, <3>1 DEF NothingLost, Live, Ptrs
    <3>3. CASE d = c
      BY <3>1, <3>2, <3>3, SetDevicePathEffect DEF Ptrs
    <3>4. CASE d # c
      BY <3>2, <3>4, SetDevicePathEffect
    <3> QED BY <3>3, <3>4
  <2> QED BY <2>1, <2>2
<1>4. ASSUME reopened PROVE NothingLost'
  BY <1>4, SetDevicePathEffect, ReopenedLoses
<1> QED BY <1>1, <1>2, <1>3, <1>4

(* Blank contexts have nothing to lose.                                    *)
LEMMA FullSetUsbBackend ==
  ASSUME SwitchWhen = "blank", FullInv, SetUsbBackend
  PROVE  PhaseInv' /\ ClaimLive' /\ NothingLost'
<1>1. \A c \in Ctxs : ctx[c].hdl = NULL /\ ctx[c].usb = NULL /\ ctx[c].name = NULL
  BY DEF SetUsbBackend, MaySwitch, Blank
<1>2. UNCHANGED <<ctx, phase, heap, claim, reopened>>
  BY DEF SetUsbBackend
<1>3. PhaseInv'
  BY <1>1, <1>2, PointersAssumption DEF PhaseInv
<1> QED BY <1>2, <1>3 DEF FullInv, ClaimLive, NothingLost

(* The full invariant holds initially.                                     *)
LEMMA FullInvInit == Init => FullInv
<1> SUFFICES ASSUME Init PROVE FullInv
  OBVIOUS
<1>1. \A c \in Ctxs : ctx[c].hdl = NULL /\ ctx[c].usb = NULL /\ ctx[c].name = NULL
  BY DEF Init, Blank
<1>2. \A o \in Ids : heap[o].kind = "free"
  BY DEF Init, Free, Obj
<1>3. PhaseInv
  BY <1>1, PointersAssumption DEF PhaseInv
<1>4. ClaimLive /\ NothingLost
  BY <1>2 DEF Init, ClaimLive, NothingLost
<1> QED BY <1>3, <1>4, IInvInit DEF FullInv

(* Every step keeps it.                                                    *)
LEMMA FullInvNext ==
  ASSUME SwitchWhen = "blank", FullInv, [Next]_vars
  PROVE  FullInv'
<1>0. IInv'
  BY IInvNext DEF FullInv
<1>1. CASE SetUsbBackend
  BY <1>0, <1>1, FullSetUsbBackend DEF FullInv
<1>2. ASSUME NEW c \in Ctxs, LibusbScan(c) \/ LibusbScanAt(c)
      PROVE  FullInv'
  BY <1>0, <1>2, FullLibusbScan DEF FullInv
<1>3. ASSUME NEW c \in Ctxs, LibusbInit(c) \/ LibusbExit(c)
      PROVE  FullInv'
  BY <1>0, <1>3, FullLibusbInit, FullLibusbExit DEF FullInv
<1>4. ASSUME NEW c \in Ctxs, WinusbScan(c) \/ WinusbInit(c) \/ WinusbExit(c)
      PROVE  FullInv'
  BY <1>0, <1>4, FullWinusbScan, FullWinusbInit, FullWinusbExit DEF FullInv
<1>5. ASSUME NEW c \in Ctxs, SetDevicePath(c)
      PROVE  FullInv'
  BY <1>0, <1>5, FullSetDevicePath DEF FullInv
<1>6. CASE UNCHANGED vars
  <2>1. PhaseInv'
    BY <1>6 DEF vars, FullInv, PhaseInv, UsesWinusb
  <2>2. ClaimLive' /\ NothingLost'
    BY <1>6 DEF vars, FullInv, ClaimLive, NothingLost
  <2> QED BY <1>0, <2>1, <2>2 DEF FullInv
<1> QED BY <1>1, <1>2, <1>3, <1>4, <1>5, <1>6 DEF Next

(* As long as every context is exited before it is used again, nothing the *)
(* contexts opened is out of reach of an exit, whichever step failed.      *)
THEOREM LosesNone ==
  ASSUME SwitchWhen = "blank"
  PROVE  Spec => []NothingLost
<1>1. FullInv => NothingLost
  BY DEF FullInv
<1>2. FullInv /\ [Next]_vars => FullInv'
  BY FullInvNext
<1> QED BY FullInvInit, <1>1, <1>2, PTL DEF Spec

----------------------------------------------------------------------------
(* The holder of the interface, before and after a step.                   *)
LEMMA HolderIs ==
  ASSUME TypeOK, NotShared, ClaimLive
  PROVE  /\ claim = NULL => Holder = NULL
         /\ \A c \in Ctxs : claim # NULL /\ ctx[c].hdl = claim => Holder = c
         /\ claim # NULL /\ (\A c \in Ctxs : ctx[c].hdl # claim) => Holder = INVALID
<1>1. ASSUME NEW c \in Ctxs, claim # NULL, ctx[c].hdl = claim PROVE Holder = c
  <2>1. claim \in Ids
    BY <1>1 DEF ClaimLive
  <2>2. \A d \in Ctxs : ctx[d].hdl = claim => d = c
    BY <1>1, <2>1 DEF NotShared
  <2>3. (CHOOSE d \in Ctxs : ctx[d].hdl = claim) = c
    BY <1>1, <2>2, Zenon
  <2> QED BY <1>1, <2>3 DEF Holder
<1>2. claim = NULL => Holder = NULL
  BY DEF Holder
<1>3. claim # NULL /\ (\A c \in Ctxs : ctx[c].hdl # claim) => Holder = INVALID
  BY DEF Holder
<1> QED BY <1>1, <1>2, <1>3

(* The same in the next state.                                             *)
LEMMA HolderNext ==
  ASSUME TypeOK', NotShared', ClaimLive'
  PROVE  /\ claim' = NULL => Holder' = NULL
         /\ \A c \in Ctxs : claim' # NULL /\ ctx'[c].hdl = claim' => Holder' = c
         /\ claim' # NULL /\ (\A c \in Ctxs : ctx'[c].hdl # claim') => Holder' = INVALID
<1>1. ASSUME NEW c \in Ctxs, claim' # NULL, ctx'[c].hdl = claim' PROVE Holder' = c
  <2>1. claim' \in Ids
    BY <1>1 DEF ClaimLive
  <2>2. \A d \in Ctxs : ctx'[d].hdl = claim' => d = c
    BY <1>1, <2>1 DEF NotShared
  <2>3. (CHOOSE d \in Ctxs : ctx'[d].hdl = claim') = c
    BY <1>1, <2>2, Zenon
  <2> QED BY <1>1, <2>3 DEF Holder
<1>2. claim' = NULL => Holder' = NULL
  BY DEF Holder
<1>3. claim' # NULL /\ (\A c \in Ctxs : ctx'[c].hdl # claim') => Holder' = INVALID
  BY DEF Holder
<1> QED BY <1>1, <1>2, <1>3

(* A step that leaves the claim alone leaves the holder alone, unless it   *)
(* replaces the handle that has the interface.                             *)
LEMMA HolderKept ==
  ASSUME TypeOK, NotShared, ClaimLive, TypeOK', NotShared', ClaimLive', NEW c \in Ctxs,
         UNCHANGED claim, \A d \in Ctxs \ {c} : ctx'[d] = ctx[d],
         claim # NULL => (ctx'[c].hdl = claim <=> ctx[c].hdl = claim)
  PROVE  UNCHANGED Holder
<1>1. CASE claim = NULL
  BY <1>1, HolderIs, HolderNext
<1>2. CASE claim # NULL /\ \E d \in Ctxs : ctx[d].hdl = claim
  <2>1. PICK d \in Ctxs : ctx[d].hdl = claim
    BY <1>2
  <2>2. ctx'[d].hdl = claim'
    BY <1>2, <2>1
  <2>3. Holder = d
    BY <1>2, <2>1, HolderIs
  <2>4. Holder' = d
    BY <1>2, <2>2, HolderNext
  <2> QED BY <2>3, <2>4
<1>3. CASE claim # NULL /\ ~\E d \in Ctxs : ctx[d].hdl = claim
  <2>1. \A d \in Ctxs : ctx'[d].hdl # claim'
    BY <1>3
  <2>2. Holder = INVALID
    BY <1>3, HolderIs
  <2>3. Holder' = INVALID
    BY <1>3, <2>1, HolderNext
  <2> QED BY <2>2, <2>3
<1> QED BY <1>1, <1>2, <1>3

(* Such a step is a stutter of the lock, or a Reopen.                      *)
LEMMA KeptIsReopen ==
  ASSUME UNCHANGED Holder, reopened \in BOOLEAN, reopened' \in {reopened, TRUE}
  PROVE  Lock!Next \/ UNCHANGED Lock!vars
  BY DEF Lock!Next, Lock!Reopen, Lock!vars

(* The ghost only ever turns TRUE.                                         *)
LEMMA ReopenedTypes ==
  ASSUME TypeOK, NEW c \in Ctxs
  PROVE  /\ reopened \in BOOLEAN
         /\ Scanned(c) \/ Opened(c) => reopened' \in {reopened, TRUE}
  BY DEF TypeOK, Scanned, Opened

(* A scan may lose the interface, if the context was not exited.           *)
LEMMA LockLibusbScan ==
  ASSUME FullInv, FullInv', NEW c \in Ctxs, LibusbScan(c) \/ LibusbScanAt(c)
  PROVE  Lock!Next \/ UNCHANGED Lock!vars
<1> USE DEF FullInv, IInv
<1>1. /\ Scanned(c) /\ UNCHANGED claim /\ ScanEffect(c)
  BY LibusbScanEffect DEF LibusbScan, LibusbScanAt
<1>2. \A d \in Ctxs \ {c} : ctx'[d] = ctx[d]
  BY <1>1 DEF ScanEffect
<1>3. claim # NULL => claim \in Ids /\ heap[claim] # Free
  BY Objects DEF ClaimLive
<1>4. CASE claim # NULL /\ ctx[c].hdl = claim /\ ctx'[c].hdl # claim
  <2>1. Holder = c
    BY <1>4, HolderIs
  <2>2. \A d \in Ctxs : ctx'[d].hdl # claim'
    BY <1>1, <1>2, <1>3, <1>4 DEF NotShared
  <2>3. Holder' = INVALID
    BY <1>1, <1>4, <2>2, HolderNext
  <2>4. phase[c] # "closed" \/ reopened
    BY <1>3, <1>4 DEF PhaseInv
  <2>5. reopened' = TRUE
    BY <1>1, <2>4, PhaseSteps
  <2> QED BY <2>1, <2>3, <2>5, PointersAssumption DEF Lock!Next, Lock!Reopen
<1>5. CASE ~(claim # NULL /\ ctx[c].hdl = claim /\ ctx'[c].hdl # claim)
  <2>1. claim # NULL => (ctx'[c].hdl = claim <=> ctx[c].hdl = claim)
    BY <1>1, <1>3, <1>5 DEF ScanEffect
  <2>2. UNCHANGED Holder
    BY <1>1, <1>2, <2>1, HolderKept
  <2> QED BY <1>1, <2>2, ReopenedTypes, KeptIsReopen
<1> QED BY <1>4, <1>5

(* An open acquires the interface, or leaves it.                           *)
LEMMA LockLibusbInit ==
  ASSUME FullInv, FullInv', NEW c \in Ctxs, LibusbInit(c)
  PROVE  Lock!Next \/ UNCHANGED Lock!vars
<1> USE DEF FullInv, IInv
<1>1. Opened(c) /\ UNCHANGED ctx
  BY DEF LibusbInit
<1>2. reopened \in BOOLEAN /\ reopened' \in {reopened, TRUE}
  BY <1>1, ReopenedTypes
<1>3. CASE UNCHANGED claim
  <2>1. UNCHANGED Holder
    BY <1>1, <1>3, HolderKept
  <2> QED BY <1>2, <2>1, KeptIsReopen
<1>4. CASE claim = NULL /\ claim' = ctx[c].hdl /\ ctx[c].hdl # NULL
  <2>1. Holder = NULL
    BY <1>4, HolderIs
  <2>2. Holder' = c
    BY <1>1, <1>4, HolderNext
  <2>3. Lock!Acquire(c)
    BY <1>2, <2>1, <2>2 DEF Lock!Acquire
  <2> QED BY <2>3 DEF Lock!Next
<1> QED BY <1>3, <1>4 DEF LibusbInit, Claimed

(* The exit of the holder releases it, another leaves it.                  *)
LEMMA LockLibusbExit ==
  ASSUME FullInv, FullInv', NEW c \in Ctxs, LibusbExit(c)
  PROVE  Lock!Next \/ UNCHANGED Lock!vars
<1> USE DEF FullInv, IInv
<1>1. CASE claim # NULL /\ ctx[c].hdl = claim
  <2>1. Holder = c
    BY <1>1, HolderIs
  <2>2. Holder' = NULL
    BY <1>1, LibusbExitEffect, HolderNext
  <2>3. Lock!Release(c)
    BY <2>1, <2>2, LibusbExitEffect DEF Lock!Release
  <2> QED BY <2>3 DEF Lock!Next
<1>2. CASE ~(claim # NULL /\ ctx[c].hdl = claim)
  <2>1. UNCHANGED <<claim, reopened>> /\ \A d \in Ctxs \ {c} : ctx'[d] = ctx[d]
    BY <1>2, LibusbExitEffect
  <2>2. ctx'[c].hdl = NULL
    BY LibusbExitEffect
  <2>3. UNCHANGED Holder
    BY <1>2, <2>1, <2>2, HolderKept
  <2> QED BY <2>1, <2>3 DEF Lock!vars
<1> QED BY <1>1, <1>2

(* WinUSB never touches a claim.                                           *)
LEMMA LockWinusb ==
  ASSUME FullInv, FullInv', NEW c \in Ctxs, WinusbScan(c) \/ WinusbInit(c) \/ WinusbExit(c)
  PROVE  Lock!Next \/ UNCHANGED Lock!vars
<1> USE DEF FullInv, IInv
<1>1. claim # NULL => claim \in Ids /\ heap[claim] # Free /\ heap[claim].kind = "libusb_handle"
  BY Objects DEF ClaimLive
<1>2. UsesWinusb /\ UNCHANGED claim /\ reopened' \in {reopened, TRUE}
  <2>1. CASE WinusbScan(c) \/ WinusbInit(c)
    BY <2>1, ReopenedTypes DEF WinusbScan, WinusbInit
  <2>2. CASE WinusbExit(c)
    BY <2>2 DEF WinusbExit
  <2> QED BY <2>1, <2>2
<1>3. claim # NULL => ctx[c].hdl # claim
  BY <1>1, <1>2 DEF PointersSound, HdlSound
<1>4. \A d \in Ctxs \ {c} : ctx'[d] = ctx[d]
  BY WinusbScanEffect, WinusbInitEffect, WinusbExitEffect DEF WinEffect
<1>5. claim # NULL => ctx'[c].hdl # claim
  <2>1. CASE WinusbScan(c)
    BY <1>3, <2>1, WinusbScanEffect
  <2>2. CASE WinusbInit(c)
    BY <1>1, <1>3, <2>2, WinusbInitEffect, PointersAssumption
  <2>3. CASE WinusbExit(c)
    BY <1>1, <2>3, WinusbExitEffect, PointersAssumption
  <2> QED BY <2>1, <2>2, <2>3
<1>6. UNCHANGED Holder
  BY <1>2, <1>3, <1>4, <1>5, HolderKept
<1> QED BY <1>2, <1>6, ReopenedTypes, KeptIsReopen

(* The contexts implement the lock on the interface.                       *)
THEOREM ImplementsLock ==
  ASSUME SwitchWhen = "blank"
  PROVE  Spec => LockSpec
<1>1. Init => Lock!Init
  BY DEF Init, Lock!Init, Holder
<1>2. FullInv /\ FullInv' /\ [Next]_vars => [Lock!Next]_(Lock!vars)
  <2> SUFFICES ASSUME FullInv, FullInv', [Next]_vars PROVE Lock!Next \/ UNCHANGED Lock!vars
    OBVIOUS
  <2>1. CASE SetUsbBackend
    <3>1. UNCHANGED <<ctx, claim, reopened>>
      BY <2>1 DEF SetUsbBackend
    <3> QED BY <3>1 DEF Lock!vars, Holder
  <2>2. ASSUME NEW c \in Ctxs, SetDevicePath(c)
        PROVE  Lock!Next \/ UNCHANGED Lock!vars
    <3>1. UNCHANGED Holder
      BY <2>2, SetDevicePathEffect, HolderKept DEF FullInv, IInv
    <3> QED BY <2>2, <3>1 DEF SetDevicePath, Lock!vars
  <2>3. CASE UNCHANGED vars
    BY <2>3 DEF vars, Lock!vars, Holder
  <2> QED BY <2>1, <2>2, <2>3, LockLibusbScan, LockLibusbInit, LockLibusbExit, LockWinusb DEF Next
<1>3. FullInv /\ [Next]_vars => FullInv'
  BY FullInvNext
<1> QED BY <1>1, <1>2, <1>3, FullInvInit, PTL DEF Spec, LockSpec, Lock!Spec

(***************************************************************************)
(* Positions in order.                                                     *)
(***************************************************************************)

(* The number of positions up to k is different for every k.               *)
LEMMA RankGrows ==
  ASSUME NEW P \in SUBSET Int, IsFiniteSet(P), NEW k \in P, NEW m \in P, k < m
  PROVE  Cardinality({j \in P : j <= k}) < Cardinality({j \in P : j <= m})
<1> DEFINE K == {j \in P : j <= k}
           M == {j \in P : j <= m}
<1>1. IsFiniteSet(K) /\ IsFiniteSet(M)
  <2>1. K \in SUBSET P /\ M \in SUBSET P
    OBVIOUS
  <2> HIDE DEF K, M
  <2> QED BY <2>1, FS_Subset
<1>2. K \in SUBSET M /\ m \in M /\ m \notin K
  <2>1. \A j \in P : j <= k => j <= m
    OBVIOUS
  <2>2. m \in P /\ m <= m /\ ~(m <= k)
    OBVIOUS
  <2> QED BY <2>1, <2>2, Zenon
<1> HIDE DEF K, M
<1>3. Cardinality(K) <= Cardinality(M) /\ Cardinality(K) # Cardinality(M)
  <2>1. K # M
    BY <1>2
  <2> QED BY <1>1, <1>2, <2>1, FS_Subset
<1>4. Cardinality(K) \in Nat /\ Cardinality(M) \in Nat
  BY <1>1, FS_CardinalityType
<1>5. Cardinality(K) < Cardinality(M)
  BY <1>3, <1>4
<1> QED BY <1>5 DEF K, M

(* Every finite set of positions can be put in order.                      *)
LEMMA InOrderFacts ==
  ASSUME NEW P \in SUBSET Int, IsFiniteSet(P)
  PROVE  /\ Cardinality(P) \in Nat
         /\ InOrder(P) \in Seq(P) /\ Len(InOrder(P)) = Cardinality(P)
         /\ \A i, j \in 1..Cardinality(P) : i < j => InOrder(P)[i] < InOrder(P)[j]
         /\ InOrder(P) = <<>> <=> P = {}
<1> DEFINE n == Cardinality(P)
           rank == [k \in P |-> Cardinality({j \in P : j <= k})]
           s == InOrder(P)
<1>1. n \in Nat
  BY FS_CardinalityType
<1>2. \A k \in P : rank[k] \in 1..n
  <2> TAKE k \in P
  <2> DEFINE K == {j \in P : j <= k}
  <2>1. K \in SUBSET P /\ K # {}
    OBVIOUS
  <2>2. rank[k] = Cardinality(K)
    OBVIOUS
  <2> HIDE DEF K, rank
  <2>3. IsFiniteSet(K) /\ Cardinality(K) <= n
    BY <2>1, FS_Subset
  <2>4. Cardinality(K) \in Nat /\ Cardinality(K) # 0
    BY <2>1, <2>3, FS_CardinalityType, FS_EmptySet
  <2> HIDE DEF n
  <2> QED BY <1>1, <2>2, <2>3, <2>4
<1>3. \A k, m \in P : k < m => rank[k] < rank[m]
  BY RankGrows
<1>4. rank \in Injection(P, 1..n)
  <2>1. rank \in [P -> 1..n]
    BY <1>2
  <2>2. \A k, m \in P : rank[k] = rank[m] => k = m
    <3> SUFFICES ASSUME NEW k \in P, NEW m \in P, k # m PROVE rank[k] # rank[m]
      OBVIOUS
    <3>1. k < m \/ m < k
      OBVIOUS
    <3> HIDE DEF rank, n
    <3> QED BY <1>1, <1>2, <1>3, <3>1
  <2> HIDE DEF rank, n
  <2> QED BY <2>1, <2>2 DEF Injection, IsInjective
<1>5. rank \in Surjection(P, 1..n)
  <2>1. IsFiniteSet(1..n) /\ Cardinality(1..n) = n
    <3> HIDE DEF n
    <3>1. n \in Int /\ 1 \in Int /\ (1 > n => n = 0) /\ n - 1 + 1 = n
      BY <1>1
    <3> QED BY <3>1, FS_Interval
  <2> HIDE DEF rank
  <2> QED BY <1>4, <2>1, FS_Injection
<1>6. \A i \in 1..n : s[i] \in P /\ rank[s[i]] = i
  <2> TAKE i \in 1..n
  <2>1. \E k \in P : rank[k] = i
    BY <1>5 DEF Surjection
  <2> QED BY <2>1 DEF InOrder
<1>7. s \in [1..n -> P]
  <2> DEFINE c(i) == CHOOSE k \in P : Cardinality({j \in P : j <= k}) = i
  <2>1. s = [i \in 1..n |-> c(i)]
    BY Zenon DEF InOrder
  <2> HIDE DEF s, n, c
  <2>2. \A i \in 1..n : s[i] = c(i)
    BY <2>1
  <2> QED BY <1>6, <2>1, <2>2
<1>8. s \in Seq(P) /\ Len(s) = n
  <2> HIDE DEF s, n
  <2>1. s \in Seq(P)
    BY <1>1, <1>7, SeqDef
  <2> QED BY <1>1, <1>7, <2>1, LenProperties
<1>9. ASSUME NEW i \in 1..n, NEW j \in 1..n, i < j PROVE s[i] < s[j]
  <2> HIDE DEF s, n, rank
  <2>1. s[i] \in P /\ s[j] \in P /\ rank[s[i]] = i /\ rank[s[j]] = j
    BY <1>6
  <2>2. s[i] \in Int /\ s[j] \in Int /\ i \in Int /\ j \in Int
    <3>1. \A k \in P : k \in Int
      OBVIOUS
    <3>2. \A k \in 1..n : k \in Int
      BY <1>1
    <3> QED BY <2>1, <3>1, <3>2, Zenon
  <2>3. s[j] < s[i] => j < i
    BY <1>3, <2>1
  <2>4. s[i] = s[j] => i = j
    BY <2>1
  <2> QED BY <1>9, <2>2, <2>3, <2>4
<1>10. s = <<>> <=> P = {}
  <2> HIDE DEF s, n
  <2>1. Len(s) = 0 => s = <<>>
    BY <1>8, EmptySeq
  <2>2. s = <<>> => Len(s) = 0
    BY EmptySeq, Zenon
  <2>3. Cardinality(P) = 0 <=> P = {}
    BY FS_EmptySet, Zenon
  <2> QED BY <1>8, <2>1, <2>2, <2>3 DEF n
<1> QED BY <1>1, <1>8, <1>9, <1>10

(***************************************************************************)
(* A device plugged in or out.                                             *)
(***************************************************************************)

(* Inserting at a position moves those from it on down by one.             *)
LEMMA InsertFacts ==
  ASSUME NEW s \in Seq(Devices), NEW d \in Devices, NEW k \in 1..(Len(s) + 1)
  PROVE  /\ InsertAt(s, k, d) \in Seq(Devices) /\ Len(InsertAt(s, k, d)) = Len(s) + 1
         /\ \A i \in 1..(Len(s) + 1) :
              InsertAt(s, k, d)[i] = IF i < k THEN s[i] ELSE IF i = k THEN d ELSE s[i - 1]
<1> DEFINE n == Len(s)
           a == SubSeq(s, 1, k - 1)
           b == <<d>>
           c == SubSeq(s, k, n)
<1>1. n \in Nat /\ \A i \in 1..n : s[i] \in Devices
  BY LenProperties, ElementOfSeq
<1>2. a \in Seq(Devices) /\ Len(a) = k - 1 /\ \A i \in 1..k-1 : a[i] = s[i]
  <2> HIDE DEF n
  <2>1. 1 \in Int /\ k - 1 \in Int /\ \A i \in 1..k-1 : s[i] \in Devices
    BY <1>1 DEF n
  <2>2. /\ a \in Seq(Devices) /\ Len(a) = IF 1 <= k - 1 THEN k - 1 - 1 + 1 ELSE 0
        /\ \A i \in 1..(k - 1 - 1 + 1) : a[i] = s[1 + i - 1]
    BY <2>1, SubSeqProperties
  <2> HIDE DEF a
  <2>3. k \in Int /\ k >= 1
    BY <1>1 DEF n
  <2>4. Len(a) = k - 1
    BY <2>2, <2>3
  <2>5. \A i \in 1..k-1 : a[i] = s[i]
    <3>1. \A i \in 1..k-1 : i \in 1..(k - 1 - 1 + 1) /\ 1 + i - 1 = i
      BY <2>3
    <3> QED BY <2>2, <3>1, Zenon
  <2> QED BY <2>2, <2>4, <2>5
<1>3. b \in Seq(Devices) /\ Len(b) = 1 /\ b[1] = d
  OBVIOUS
<1>4. c \in Seq(Devices) /\ Len(c) = n - k + 1 /\ \A i \in 1..n-k+1 : c[i] = s[k + i - 1]
  <2> HIDE DEF n
  <2>1. k \in Int /\ n \in Int /\ k <= n + 1 /\ \A i \in k..n : s[i] \in Devices
    BY <1>1 DEF n
  <2>2. /\ c \in Seq(Devices) /\ Len(c) = IF k <= n THEN n - k + 1 ELSE 0
        /\ \A i \in 1..n-k+1 : c[i] = s[k + i - 1]
    BY <2>1, SubSeqProperties
  <2> HIDE DEF c
  <2> QED BY <2>1, <2>2
<1>5. InsertAt(s, k, d) = (a \o b) \o c
  BY DEF InsertAt
<1> HIDE DEF n, a, b, c
<1>k. k \in Int /\ k >= 1 /\ k <= n + 1
  BY <1>1 DEF n
<1>6. /\ a \o b \in Seq(Devices) /\ Len(a \o b) = k
      /\ \A i \in 1..k : (a \o b)[i] = IF i <= k - 1 THEN a[i] ELSE b[i - (k - 1)]
  <2>1. Len(a) + Len(b) = k
    BY <1>2, <1>3, <1>k
  <2>2. /\ a \o b \in Seq(Devices) /\ Len(a \o b) = Len(a) + Len(b)
        /\ \A i \in 1..(Len(a) + Len(b)) :
             (a \o b)[i] = IF i <= Len(a) THEN a[i] ELSE b[i - Len(a)]
    BY <1>2, <1>3, ConcatProperties
  <2>3. Len(a) = k - 1
    BY <1>2
  <2> QED BY <2>1, <2>2, <2>3
<1>7. /\ InsertAt(s, k, d) \in Seq(Devices) /\ Len(InsertAt(s, k, d)) = n + 1
      /\ \A i \in 1..(n + 1) :
           InsertAt(s, k, d)[i] = IF i <= k THEN (a \o b)[i] ELSE c[i - k]
  <2> DEFINE ab == a \o b
  <2>1. ab \in Seq(Devices) /\ Len(ab) = k
    BY <1>6
  <2> HIDE DEF ab
  <2>2. /\ ab \o c \in Seq(Devices) /\ Len(ab \o c) = Len(ab) + Len(c)
        /\ \A i \in 1..(Len(ab) + Len(c)) :
             (ab \o c)[i] = IF i <= Len(ab) THEN ab[i] ELSE c[i - Len(ab)]
    BY <1>4, <2>1, ConcatProperties
  <2>3. Len(ab) + Len(c) = n + 1
    BY <1>1, <1>4, <1>k, <2>1
  <2>4. InsertAt(s, k, d) = ab \o c
    BY <1>5 DEF ab
  <2>5. /\ InsertAt(s, k, d) \in Seq(Devices) /\ Len(InsertAt(s, k, d)) = n + 1
        /\ \A i \in 1..(n + 1) : InsertAt(s, k, d)[i] = IF i <= k THEN ab[i] ELSE c[i - k]
    BY <2>1, <2>2, <2>3, <2>4
  <2> QED BY <2>5 DEF ab
<1>8. ASSUME NEW i \in 1..(n + 1)
      PROVE  InsertAt(s, k, d)[i] = IF i < k THEN s[i] ELSE IF i = k THEN d ELSE s[i - 1]
  <2>1. i \in Int /\ i >= 1 /\ i <= n + 1
    BY <1>1
  <2>2. CASE i < k
    <3>1. i <= k /\ i <= k - 1 /\ i \in 1..k /\ i \in 1..k-1
      BY <2>1, <2>2, <1>k
    <3> QED BY <1>2, <1>6, <1>7, <2>2, <3>1
  <2>3. CASE i = k
    <3>1. i <= k /\ ~(i <= k - 1) /\ i \in 1..k /\ i - (k - 1) = 1 /\ ~(i < k)
      BY <2>1, <2>3, <1>k
    <3>2. InsertAt(s, k, d)[i] = (a \o b)[i]
      BY <1>7, <3>1
    <3>3. (a \o b)[i] = b[i - (k - 1)]
      BY <1>6, <3>1
    <3>4. InsertAt(s, k, d)[i] = d
      BY <1>3, <3>1, <3>2, <3>3, Zenon
    <3> QED BY <2>3, <3>1, <3>4, Zenon
  <2>4. CASE i > k
    <3>1. ~(i <= k) /\ i - k \in 1..n-k+1 /\ k + (i - k) - 1 = i - 1 /\ ~(i < k) /\ i # k
      BY <1>1, <2>1, <2>4, <1>k
    <3>2. c[i - k] = s[k + (i - k) - 1]
      BY <1>4, <3>1
    <3>3. InsertAt(s, k, d)[i] = c[i - k]
      BY <1>7, <3>1
    <3>4. InsertAt(s, k, d)[i] = s[i - 1]
      BY <3>1, <3>2, <3>3, Zenon
    <3> QED BY <3>1, <3>4, Zenon
  <2> QED BY <1>k, <2>1, <2>2, <2>3, <2>4
<1> QED BY <1>7, <1>8 DEF n

(* Taking out a position moves those behind it up by one.                  *)
LEMMA RemoveFacts ==
  ASSUME NEW s \in Seq(Devices), NEW k \in 1..Len(s)
  PROVE  /\ RemoveAt(s, k) \in Seq(Devices) /\ Len(RemoveAt(s, k)) = Len(s) - 1
         /\ \A i \in 1..Len(s)-1 : RemoveAt(s, k)[i] = IF i < k THEN s[i] ELSE s[i + 1]
<1> DEFINE n == Len(s)
           a == SubSeq(s, 1, k - 1)
           c == SubSeq(s, k + 1, n)
<1>1. n \in Nat /\ \A i \in 1..n : s[i] \in Devices
  BY LenProperties, ElementOfSeq
<1>2. a \in Seq(Devices) /\ Len(a) = k - 1 /\ \A i \in 1..k-1 : a[i] = s[i]
  <2> HIDE DEF n
  <2>1. 1 \in Int /\ k - 1 \in Int /\ \A i \in 1..k-1 : s[i] \in Devices
    BY <1>1 DEF n
  <2>2. /\ a \in Seq(Devices) /\ Len(a) = IF 1 <= k - 1 THEN k - 1 - 1 + 1 ELSE 0
        /\ \A i \in 1..(k - 1 - 1 + 1) : a[i] = s[1 + i - 1]
    BY <2>1, SubSeqProperties
  <2> HIDE DEF a
  <2>3. k \in Int /\ k >= 1
    BY <1>1 DEF n
  <2>4. Len(a) = k - 1
    BY <2>2, <2>3
  <2>5. \A i \in 1..k-1 : a[i] = s[i]
    <3>1. \A i \in 1..k-1 : i \in 1..(k - 1 - 1 + 1) /\ 1 + i - 1 = i
      BY <2>3
    <3> QED BY <2>2, <3>1, Zenon
  <2> QED BY <2>2, <2>4, <2>5
<1>3. c \in Seq(Devices) /\ Len(c) = n - k /\ \A i \in 1..n-k : c[i] = s[k + i]
  <2> HIDE DEF n
  <2>1. k \in Int /\ k + 1 \in Int /\ n \in Int /\ k <= n /\ \A i \in (k + 1)..n : s[i] \in Devices
    BY <1>1 DEF n
  <2>2. /\ c \in Seq(Devices) /\ Len(c) = IF k + 1 <= n THEN n - (k + 1) + 1 ELSE 0
        /\ \A i \in 1..(n - (k + 1) + 1) : c[i] = s[k + 1 + i - 1]
    BY <2>1, SubSeqProperties
  <2> HIDE DEF c
  <2>3. Len(c) = n - k
    BY <2>1, <2>2
  <2>4. \A i \in 1..n-k : i \in 1..(n - (k + 1) + 1) /\ k + 1 + i - 1 = k + i
    BY <2>1
  <2>5. \A i \in 1..n-k : c[i] = s[k + i]
    BY <2>2, <2>4, Zenon
  <2> QED BY <2>2, <2>3, <2>5
<1>4. RemoveAt(s, k) = a \o c
  BY DEF RemoveAt
<1> HIDE DEF n, a, c
<1>k. k \in Int /\ k >= 1 /\ k <= n
  BY <1>1 DEF n
<1>5. /\ RemoveAt(s, k) \in Seq(Devices) /\ Len(RemoveAt(s, k)) = n - 1
      /\ \A i \in 1..n-1 : RemoveAt(s, k)[i] = IF i <= k - 1 THEN a[i] ELSE c[i - (k - 1)]
  <2>1. Len(a) + Len(c) = n - 1
    BY <1>1, <1>2, <1>3, <1>k
  <2>2. /\ a \o c \in Seq(Devices) /\ Len(a \o c) = Len(a) + Len(c)
        /\ \A i \in 1..(Len(a) + Len(c)) :
             (a \o c)[i] = IF i <= Len(a) THEN a[i] ELSE c[i - Len(a)]
    BY <1>2, <1>3, ConcatProperties
  <2>3. Len(a) = k - 1
    BY <1>2
  <2> QED BY <1>4, <2>1, <2>2, <2>3
<1>6. ASSUME NEW i \in 1..n-1
      PROVE  RemoveAt(s, k)[i] = IF i < k THEN s[i] ELSE s[i + 1]
  <2>1. i \in Int /\ i >= 1 /\ i <= n - 1
    BY <1>1
  <2>2. CASE i < k
    <3>1. i <= k - 1 /\ i \in 1..k-1
      BY <2>1, <2>2, <1>k
    <3> QED BY <1>2, <1>5, <2>2, <3>1
  <2>3. CASE ~(i < k)
    <3>1. ~(i <= k - 1) /\ i - (k - 1) \in 1..n-k /\ k + (i - (k - 1)) = i + 1
      BY <1>1, <2>1, <2>3, <1>k
    <3>2. c[i - (k - 1)] = s[k + (i - (k - 1))]
      BY <1>3, <3>1
    <3>3. RemoveAt(s, k)[i] = c[i - (k - 1)]
      BY <1>5, <3>1
    <3>4. RemoveAt(s, k)[i] = s[i + 1]
      BY <3>1, <3>2, <3>3, Zenon
    <3> QED BY <2>3, <3>4, Zenon
  <2> QED BY <2>2, <2>3
<1> QED BY <1>5, <1>6 DEF n

(***************************************************************************)
(* What the calls may return.                                              *)
(***************************************************************************)

(* An outcome is a record of its four parts; a success has kept nothing,   *)
(* and no call keeps its libusb context.                                   *)
Sound(out) ==
  /\ out = Outcome(out.code, out.entries, out.dev, out.kept)
  /\ out.code \in Codes /\ out.dev \in Devices \cup {None} /\ out.kept \subseteq Allocations
  /\ out.code = "SUCCESS" => out.kept = {}
  /\ "context" \notin out.kept

(* Outcome makes a sound record of sound parts.                            *)
LEMMA SoundOutcome ==
  ASSUME NEW code \in Codes, NEW entries, NEW dev \in Devices \cup {None},
         NEW kept \in SUBSET (Allocations \ {"context"}), code = "SUCCESS" => kept = {}
  PROVE  /\ Sound(Outcome(code, entries, dev, kept))
         /\ Outcome(code, entries, dev, kept).code = code
         /\ Outcome(code, entries, dev, kept).entries = entries
         /\ Outcome(code, entries, dev, kept).dev = dev
  BY DEF Sound, Outcome

(* A failure opens and keeps nothing.                                      *)
LEMMA SoundFails ==
  ASSUME NEW code \in Codes
  PROVE  /\ Sound(Fails(code)) /\ Fails(code).code = code
         /\ Fails(code).entries = <<>> /\ Fails(code).dev = None
  BY SoundOutcome DEF Fails

(* The outcome of a call on an entry also names the entry.                 *)
LEMMA SoundWithEntry ==
  ASSUME NEW out, Sound(out), NEW entries
  PROVE  /\ Sound([out EXCEPT !.entries = entries])
         /\ [out EXCEPT !.entries = entries].code = out.code
         /\ [out EXCEPT !.entries = entries].dev = out.dev
         /\ [out EXCEPT !.entries = entries].entries = entries
<1>1. PICK code, e, dev, kept : out = [code |-> code, entries |-> e, dev |-> dev, kept |-> kept]
  BY DEF Sound, Outcome
<1>2. [out EXCEPT !.entries = entries]
        = [code |-> code, entries |-> entries, dev |-> dev, kept |-> kept]
  BY <1>1
<1>3. out.code = code /\ out.dev = dev /\ out.kept = kept
  BY <1>1
<1> QED BY <1>2, <1>3 DEF Sound, Outcome

(* The positions a call considers are positions of the bus.                *)
LEMMA BusPositions ==
  ASSUME bus \in Seq(Devices), NEW P \in SUBSET (DOMAIN bus)
  PROVE  /\ Len(bus) \in Nat /\ DOMAIN bus = 1..Len(bus)
         /\ P \in SUBSET Int /\ IsFiniteSet(P)
         /\ Cardinality(P) \in Nat
         /\ InOrder(P) \in Seq(P) /\ Len(InOrder(P)) = Cardinality(P)
         /\ DOMAIN InOrder(P) = 1..Len(InOrder(P))
         /\ \A i \in 1..Len(InOrder(P)) : /\ InOrder(P)[i] \in P
                                          /\ InOrder(P)[i] \in 1..Len(bus)
                                          /\ bus[InOrder(P)[i]] \in Devices
         /\ \A i, j \in 1..Len(InOrder(P)) : i < j => InOrder(P)[i] < InOrder(P)[j]
         /\ InOrder(P) # <<>> => 1 \in 1..Len(InOrder(P))
<1>1. Len(bus) \in Nat /\ DOMAIN bus = 1..Len(bus)
  BY LenProperties
<1>2. P \in SUBSET Int /\ IsFiniteSet(P)
  <2>1. P \in SUBSET (1..Len(bus)) /\ \A k \in 1..Len(bus) : k \in Int
    BY <1>1
  <2>2. IsFiniteSet(1..Len(bus))
    BY <1>1, FS_Interval
  <2>3. IsFiniteSet(P)
    BY <2>1, <2>2, FS_Subset
  <2> QED BY <2>1, <2>3
<1>3. /\ Cardinality(P) \in Nat
      /\ InOrder(P) \in Seq(P) /\ Len(InOrder(P)) = Cardinality(P)
      /\ \A i, j \in 1..Cardinality(P) : i < j => InOrder(P)[i] < InOrder(P)[j]
  BY <1>2, InOrderFacts
<1>4. \A i \in 1..Len(InOrder(P)) : InOrder(P)[i] \in P
  BY <1>3, ElementOfSeq
<1>5. \A k \in 1..Len(bus) : bus[k] \in Devices
  BY ElementOfSeq
<1>6. DOMAIN InOrder(P) = 1..Len(InOrder(P))
  BY <1>3, LenProperties
<1>7. InOrder(P) # <<>> => 1 \in 1..Len(InOrder(P))
  <2>1. InOrder(P) # <<>> => Len(InOrder(P)) \in Nat \ {0}
    BY <1>3, EmptySeq
  <2>2. \A n \in Nat \ {0} : 1 \in 1..n
    OBVIOUS
  <2> QED BY <2>1, <2>2, Zenon
<1>8. \A i \in 1..Len(InOrder(P)) : InOrder(P)[i] \in 1..Len(bus)
  BY <1>1, <1>4
<1> QED BY <1>1, <1>2, <1>3, <1>4, <1>5, <1>6, <1>7, <1>8, Zenon

(* What a pass finds are matching devices of the bus.                      *)
LEMMA SeenFacts ==
  ASSUME bus \in Seq(Devices), NEW bad
  PROVE  /\ Found(bad) \in SUBSET (DOMAIN bus)
         /\ \A k \in Found(bad) : bus[k].sunxi /\ k \in 1..Len(bus)
  BY LenProperties DEF Found

(* TryOpen opens this device or fails.                                     *)
LEMMA TryOpenCases ==
  ASSUME NEW dev \in Devices, NEW out \in TryOpen(dev)
  PROVE  /\ Sound(out) /\ out.entries = <<>>
         /\ out.code = "SUCCESS" => out.dev = dev
<1>1. CASE out = Opens(dev)
  BY <1>1, SoundOutcome DEF Opens, Codes
<1>2. CASE out # Opens(dev)
  <2>1. PICK code \in {"USB_WRONG_DRIVER", "USB_OPEN", "USB_INIT"} : out = Fails(code)
    BY <1>2 DEF TryOpen, OpenErrors
  <2>2. code \in Codes /\ code # "SUCCESS"
    BY DEF Codes
  <2> QED BY <2>1, <2>2, SoundFails
<1> QED BY <1>1, <1>2

(* Failures before a device is opened.                                     *)
LEMMA StartCases ==
  ASSUME NEW P,
         NEW out \in StartFailures \cup DetailFailures(P) \cup {Fails("USB_DEVICE_NOT_FOUND")}
  PROVE  Sound(out) /\ out.entries = <<>> /\ out.code # "SUCCESS"
<1>1. PICK code \in {"USB_INIT", "crash", "MEMORY", "USB_DEVICE_NOT_FOUND"} : out = Fails(code)
  BY DEF StartFailures, DetailFailures
<1>2. code \in Codes /\ code # "SUCCESS"
  BY DEF Codes
<1> QED BY <1>1, <1>2, SoundFails

(* scan_device: whatever happens, its outcome is sound.                    *)
LEMMA OpenFirstCases ==
  ASSUME bus \in Seq(Devices), NEW bad, NEW out \in OpenFirstOutcomes(bad)
  PROVE  Sound(out) /\ out.entries = <<>>
<1> DEFINE seen == Seen(bad)
           before == {k \in bad : seen = <<>> \/ k < seen[1]}
<1>1. \/ out \in StartFailures \cup DetailFailures(DOMAIN bus) \cup {Fails("USB_DEVICE_NOT_FOUND")}
      \/ out = Outcome("USB_DEVICE_NOT_FOUND", <<>>, None, {"list"})
      \/ seen # <<>> /\ out \in TryOpen(bus[seen[1]])
  BY Zenon DEF OpenFirstOutcomes
<1>2. CASE out = Outcome("USB_DEVICE_NOT_FOUND", <<>>, None, {"list"})
  <2>1. /\ "USB_DEVICE_NOT_FOUND" \in Codes /\ {"list"} \in SUBSET (Allocations \ {"context"})
        /\ "USB_DEVICE_NOT_FOUND" # "SUCCESS" /\ None \in Devices \cup {None}
    BY DEF Codes, Allocations
  <2> QED BY <1>2, <2>1, SoundOutcome
<1>3. CASE seen # <<>> /\ out \in TryOpen(bus[seen[1]])
  <2>1. bus[seen[1]] \in Devices
    BY <1>3, SeenFacts, BusPositions DEF Seen
  <2> QED BY <1>3, <2>1, TryOpenCases
<1> QED BY <1>1, <1>2, <1>3, StartCases

(* scan_device_at opens a matching device at the place asked for.          *)
LEMMA OpenAtCases ==
  ASSUME bus \in Seq(Devices), NEW e, NEW bad, NEW out \in OpenAtOutcomes(e, bad)
  PROVE  /\ Sound(out)
         /\ out.code = "SUCCESS" =>
              \E k \in 1..Len(bus) : IsAt(k, e) /\ out.dev = bus[k] /\ bus[k].sunxi
<1> DEFINE P == {k \in Found(bad) : IsAt(k, e)}
           there == InOrder(P)
           D == {k \in DOMAIN bus : IsAt(k, e)}
<1>1. \/ out \in StartFailures \cup DetailFailures(D) \cup {Fails("USB_DEVICE_NOT_FOUND")}
      \/ there # <<>> /\ out \in TryOpen(bus[there[1]])
  BY DEF OpenAtOutcomes
<1>2. CASE there # <<>> /\ out \in TryOpen(bus[there[1]])
  <2>1. P \in SUBSET (DOMAIN bus)
    BY SeenFacts
  <2>2. there[1] \in P /\ bus[there[1]] \in Devices
    <3> HIDE DEF P
    <3> QED BY <1>2, <2>1, BusPositions
  <2>3. there[1] \in 1..Len(bus) /\ IsAt(there[1], e) /\ bus[there[1]].sunxi
    <3> HIDE DEF there
    <3> QED BY <2>2, SeenFacts
  <2> HIDE DEF there
  <2> QED BY <1>2, <2>2, <2>3, TryOpenCases
<1>3. CASE out \in StartFailures \cup DetailFailures(D) \cup {Fails("USB_DEVICE_NOT_FOUND")}
  BY <1>3, StartCases
<1> QED BY <1>1, <1>2, <1>3

(* The path opens a device that is present and has it.                     *)
LEMMA OpenPathCases ==
  ASSUME bus \in Seq(Devices), NEW e, NEW out \in OpenPathOutcomes(e)
  PROVE  /\ Sound(out)
         /\ out.code = "SUCCESS" =>
              \E k \in 1..Len(bus) : <<bus[k].id>> = e.path /\ out.dev = bus[k]
<1>1. CASE out = Fails("USB_OPEN")
  <2>1. "USB_OPEN" \in Codes /\ "USB_OPEN" # "SUCCESS"
    BY DEF Codes
  <2> QED BY <1>1, <2>1, SoundFails
<1>2. CASE out # Fails("USB_OPEN")
  <2>1. PICK k \in DOMAIN bus : <<bus[k].id>> = e.path /\ out = Opens(bus[k])
    BY <1>2 DEF OpenPathOutcomes
  <2>2. k \in 1..Len(bus) /\ bus[k] \in Devices
    BY LenProperties, ElementOfSeq
  <2>3. "SUCCESS" \in Codes /\ {} \in SUBSET (Allocations \ {"context"})
    BY DEF Codes
  <2>4. Sound(out) /\ out.dev = bus[k]
    BY <2>1, <2>2, <2>3, SoundOutcome DEF Opens
  <2> QED BY <2>1, <2>2, <2>4
<1> QED BY <1>1, <1>2

(***************************************************************************)
(* What an enumeration reports.                                            *)
(***************************************************************************)

(* A failed enumeration opens nothing.                                     *)
LEMMA FailureCases ==
  ASSUME NEW call, NEW again, NEW out \in EnumerationFailures(call, again)
  PROVE  Sound(out) /\ out.dev = None /\ out.code # "SUCCESS"
<1>1. CASE \E code \in {"USB_INIT", "USB_DEVICE_NOT_FOUND", "MEMORY"} : out = Fails(code)
  <2>1. \A code \in {"USB_INIT", "USB_DEVICE_NOT_FOUND", "MEMORY"} :
          code \in Codes /\ code # "SUCCESS"
    BY DEF Codes
  <2> QED BY <1>1, <2>1, SoundFails
<1>2. CASE \E k : out = Outcome("MEMORY", <<>>, None, PathsLost(call, again, k))
  <2>1. PICK k : out = Outcome("MEMORY", <<>>, None, PathsLost(call, again, k))
    BY <1>2
  <2>2. /\ PathsLost(call, again, k) \in SUBSET (Allocations \ {"context"})
        /\ "MEMORY" \in Codes /\ "MEMORY" # "SUCCESS" /\ None \in Devices \cup {None}
    BY DEF PathsLost, Allocations, Codes
  <2> QED BY <2>1, <2>2, SoundOutcome
<1> QED BY <1>1, <1>2 DEF EnumerationFailures

(* A successful enumeration reports nothing, or fills the places of its    *)
(* first pass with what the second one sees.                               *)
LEMMA EnumerationCases ==
  ASSUME NEW call, NEW out \in EnumerationOutcomes(call)
  PROVE  /\ Sound(out) /\ out.dev = None
         /\ out.code = "SUCCESS" =>
              \/ out.entries = <<>>
              \/ \E b, c : /\ out.entries = Filled(call, Len(Seen(b)), Seen(c))
                           /\ "reread" \notin Faults => b = c
<1> DEFINE Bads == {b \in Unreadable \X Unreadable : "reread" \in Faults \/ b[1] = b[2]}
<1>1. PICK bad \in Bads :
        out \in EnumerationFailures(call, Seen(bad[2]))
               \cup {IF Seen(bad[1]) = <<>> THEN NothingFound(call)
                     ELSE Outcome("SUCCESS", Filled(call, Len(Seen(bad[1])), Seen(bad[2])),
                                  None, {})}
  BY Zenon DEF EnumerationOutcomes
<1>2. CASE out \in EnumerationFailures(call, Seen(bad[2]))
  BY <1>2, FailureCases
<1>3. CASE out = NothingFound(call)
  <2>1. PICK code \in {"SUCCESS", "USB_DEVICE_NOT_FOUND"} : out = Fails(code)
    BY <1>3 DEF NothingFound
  <2>2. code \in Codes
    BY DEF Codes
  <2> QED BY <2>1, <2>2, SoundFails
<1>4. CASE out = Outcome("SUCCESS", Filled(call, Len(Seen(bad[1])), Seen(bad[2])), None, {})
  <2> DEFINE f == Filled(call, Len(Seen(bad[1])), Seen(bad[2]))
  <2>1. /\ "SUCCESS" \in Codes /\ None \in Devices \cup {None}
        /\ {} \in SUBSET (Allocations \ {"context"})
    BY DEF Codes
  <2> HIDE DEF f
  <2>2. Sound(out) /\ out.dev = None /\ out.entries = f
    BY <1>4, <2>1, SoundOutcome DEF f
  <2>3. "reread" \notin Faults => bad[1] = bad[2]
    OBVIOUS
  <2> QED BY <2>2, <2>3 DEF f
<1> QED BY <1>1, <1>2, <1>3, <1>4

(* A position that is a port number at all is itself as one.               *)
LEMMA PortFacts ==
  /\ \A k \in Int : k % PortValues \in Nat
  /\ \A k \in Nat : k < PortValues => k % PortValues = k
<1>1. PortValues \in Nat \ {0}
  BY ScanAssumption
<1>2. \A k \in Int : k % PortValues \in 0..PortValues-1
  BY <1>1, DivMod, Zenon
<1>3. \A k \in Int : k % PortValues \in Nat
  BY <1>1, <1>2
<1>4. \A k \in Nat : k < PortValues => k % PortValues = k
  BY <1>1
<1> QED BY <1>3, <1>4

(* An entry shows a matching device of the list it was made from.          *)
ShowsPlace(e, list, k) ==
  /\ e.dev = list[k] /\ e.dev.sunxi
  /\ \/ winusb /\ e.path = <<>> /\ e.port = k % PortValues
     \/ winusb /\ e.path = <<e.dev.id>>
     \/ ~winusb /\ e.bus = e.dev.bus /\ e.port = e.dev.port
Shows(e, list) == e \in Entry /\ (e = Unwritten \/ \E k \in 1..Len(list) : ShowsPlace(e, list, k))

(* The second pass writes entries that show their position.                *)
LEMMA EntryShows ==
  ASSUME bus \in Seq(Devices), NEW call, NEW k \in 1..Len(bus), NEW place, bus[k].sunxi
  PROVE  Shows(EntryOf(call, k, place), bus) /\ EntryOf(call, k, place).dev = bus[k]
<1> DEFINE e == EntryOf(call, k, place)
           d == bus[k]
<1>1. d \in Devices /\ d.id \in Nat /\ d.bus \in Nat /\ d.port \in Nat /\ k \in Int
  BY ElementOfSeq, LenProperties, DevicesAssumption
<1>2. /\ e.dev = d /\ e.path = EntryPath(call, k) /\ e.port = EntryPort(call, k, place)
      /\ e.bus = IF winusb /\ call = "scan_devices" THEN 0 ELSE d.bus
      /\ e = [dev |-> e.dev, bus |-> e.bus, port |-> e.port, path |-> e.path]
  BY DEF EntryOf
<1>3. e.path \in Seq(Nat)
  <2>1. <<>> \in Seq(Nat) /\ \A i, j \in Nat : <<i>> \in Seq(Nat) /\ <<i, j>> \in Seq(Nat)
    OBVIOUS
  <2> HIDE DEF e
  <2> QED BY <1>1, <1>2, <2>1 DEF EntryPath
<1>4. e.port \in Nat /\ e.bus \in Nat
  <2> HIDE DEF e
  <2> QED BY <1>1, <1>2, PortFacts DEF EntryPort
<1>5. e \in Entry
  <2> HIDE DEF e, d
  <2> QED BY <1>1, <1>2, <1>3, <1>4 DEF Entry
<1>6. ShowsPlace(e, bus, k)
  <2> HIDE DEF e
  <2> QED BY <1>1, <1>2 DEF EntryPath, EntryPort, ShowsPlace
<1> QED BY <1>2, <1>5, <1>6 DEF Shows

(* A place that the second pass did not reach.                             *)
LEMMA UnwrittenShows == \A list : Shows(Unwritten, list)
<1>1. <<>> \in Seq(Nat) /\ 0 \in Nat /\ None \in Devices \cup {None}
  OBVIOUS
<1> QED BY <1>1 DEF Shows, Unwritten, Entry

(* The places of the array.                                                *)
LEMMA FilledPlaces ==
  ASSUME NEW call, NEW count, NEW again
  PROVE  /\ DOMAIN Filled(call, count, again) = 1..count
         /\ \A place \in 1..count :
              Filled(call, count, again)[place]
                = IF place <= Len(again) THEN EntryOf(call, again[place], place) ELSE Unwritten
<1> DEFINE f(place) == IF place <= Len(again) THEN EntryOf(call, again[place], place) ELSE Unwritten
<1>1. Filled(call, count, again) = [place \in 1..count |-> f(place)]
  BY DEF Filled
<1> HIDE DEF f
<1>2. /\ DOMAIN Filled(call, count, again) = 1..count
      /\ \A place \in 1..count : Filled(call, count, again)[place] = f(place)
  BY <1>1
<1> QED BY <1>2 DEF f

(* Every place of the array shows a position or is not written.            *)
LEMMA FilledShows ==
  ASSUME bus \in Seq(Devices), NEW call, NEW b, NEW c,
         NEW place \in DOMAIN Filled(call, Len(Seen(b)), Seen(c))
  PROVE  Shows(Filled(call, Len(Seen(b)), Seen(c))[place], bus)
<1> DEFINE n == Len(Seen(b))
           again == Seen(c)
<1>1. /\ place \in 1..n
      /\ Filled(call, n, again)[place]
           = IF place <= Len(again) THEN EntryOf(call, again[place], place) ELSE Unwritten
  BY FilledPlaces
<1>2. CASE place <= Len(again)
  <2>1. n \in Nat
    BY SeenFacts, BusPositions DEF Seen
  <2>2. /\ Len(again) \in Nat
        /\ \A i \in 1..Len(again) : again[i] \in 1..Len(bus) /\ again[i] \in Found(c)
    BY SeenFacts, BusPositions DEF Seen
  <2> HIDE DEF n, again
  <2>3. place \in 1..Len(again)
    BY <1>1, <1>2, <2>1, <2>2
  <2>4. again[place] \in 1..Len(bus) /\ bus[again[place]].sunxi
    BY <2>2, <2>3, SeenFacts
  <2>5. Shows(EntryOf(call, again[place], place), bus)
    BY <2>4, EntryShows
  <2>6. Filled(call, n, again)[place] = EntryOf(call, again[place], place)
    BY <1>1, <1>2
  <2>7. Shows(Filled(call, n, again)[place], bus)
    BY <2>5, <2>6
  <2> QED BY <2>7 DEF n, again
<1>3. CASE ~(place <= Len(again))
  <2> HIDE DEF n, again
  <2>1. Shows(Filled(call, n, again)[place], bus)
    BY <1>1, <1>3, UnwrittenShows
  <2> QED BY <2>1 DEF n, again
<1> QED BY <1>2, <1>3

(***************************************************************************)
(* The invariant: no device is on the bus twice, and every entry shows its *)
(* position in the list it was made from.                                  *)
(***************************************************************************)
NoneTwice == \A j, k \in 1..Len(bus) : bus[j] = bus[k] => j = k
AnswerShows == \A place \in DOMAIN answer : Shows(answer[place], listed)
ScanInv == ScanTypeOK /\ NothingKept /\ NoneTwice /\ AnswerShows

(* Nothing is on the bus and nothing has been reported.                    *)
LEMMA ScanStarts == ScanInit => ScanInv
<1> SUFFICES ASSUME ScanInit PROVE ScanInv
  OBVIOUS
<1>1. /\ <<>> \in Seq(Devices) /\ Len(<<>>) = 0 /\ DOMAIN <<>> = {} /\ 1..0 = {}
  BY EmptySeq
<1>2. "SUCCESS" \in Codes
  BY DEF Codes
<1>3. Sound(last) /\ last.kept = {}
  BY <1>2, SoundFails DEF ScanInit, Sound, Fails, Outcome
<1>4. winusb \in BOOLEAN /\ changes \in 0..MaxChanges
  BY ScanAssumption DEF ScanInit
<1> QED BY <1>1, <1>3, <1>4
        DEF ScanInit, ScanInv, ScanTypeOK, NothingKept, NoneTwice, AnswerShows, Sound

(* The entries of an enumeration show the bus, which it remembers.         *)
LEMMA EnumerateKeeps ==
  ASSUME ScanInv, Enumerate
  PROVE  ScanInv'
<1>0. PICK call \in Calls : \E out \in EnumerationOutcomes(call) :
        /\ last' = out /\ listed' = bus
        /\ answer' = IF out.code = "SUCCESS" THEN out.entries ELSE <<>>
        /\ UNCHANGED <<winusb, bus, changes>>
  BY DEF Enumerate
<1>1. PICK out \in EnumerationOutcomes(call) :
        /\ last' = out /\ listed' = bus
        /\ answer' = IF out.code = "SUCCESS" THEN out.entries ELSE <<>>
        /\ UNCHANGED <<winusb, bus, changes>>
  BY <1>0
<1>2. Sound(last')
  BY <1>1, EnumerationCases
<1>3. bus \in Seq(Devices)
  BY DEF ScanInv, ScanTypeOK
<1>4. \A place \in DOMAIN answer' : Shows(answer'[place], bus)
  <2>1. CASE answer' = <<>>
    <3>1. DOMAIN <<>> = {}
      OBVIOUS
    <3> QED BY <2>1, <3>1
  <2>2. CASE \E b, c : answer' = Filled(call, Len(Seen(b)), Seen(c))
    BY <1>3, <2>2, FilledShows
  <2>3. answer' = <<>> \/ \E b, c : answer' = Filled(call, Len(Seen(b)), Seen(c))
    <3>2. CASE out.code = "SUCCESS"
      <4>1. answer' = out.entries
        BY <1>1, <3>2
      <4>2. out.entries = <<>> \/ \E b, c : out.entries = Filled(call, Len(Seen(b)), Seen(c))
        BY <3>2, EnumerationCases
      <4> QED BY <4>1, <4>2
    <3>3. CASE out.code # "SUCCESS"
      BY <1>1, <3>3
    <3> QED BY <3>2, <3>3
  <2> QED BY <2>1, <2>2, <2>3
<1>5. AnswerShows'
  BY <1>1, <1>4 DEF AnswerShows, Shows, ShowsPlace
<1>6. \A place \in DOMAIN answer' : answer'[place] \in Entry
  BY <1>4 DEF Shows
<1> QED BY <1>1, <1>2, <1>3, <1>5, <1>6
        DEF ScanInv, ScanTypeOK, NothingKept, NoneTwice, Sound, Entry

(* Opening a device only changes what the last call returned.              *)
LEMMA OpenKeeps ==
  ASSUME ScanInv, OpenFirst \/ OpenAt \/ OpenPath
  PROVE  ScanInv'
<1>1. UNCHANGED <<winusb, bus, changes, answer, listed>>
  BY DEF OpenFirst, OpenAt, OpenPath
<1>2. bus \in Seq(Devices)
  BY DEF ScanInv, ScanTypeOK
<1>3. Sound(last')
  <2>1. CASE OpenFirst
    BY <1>2, <2>1, OpenFirstCases DEF OpenFirst
  <2>2. CASE OpenAt
    <3>1. PICK place \in DOMAIN answer, bad \in Unreadable :
            \E out \in OpenAtOutcomes(answer[place], bad) :
              last' = [out EXCEPT !.entries = <<answer[place]>>]
      BY <2>2 DEF OpenAt
    <3>2. PICK out \in OpenAtOutcomes(answer[place], bad) :
            last' = [out EXCEPT !.entries = <<answer[place]>>]
      BY <3>1
    <3>3. Sound(out)
      BY <1>2, OpenAtCases
    <3> QED BY <3>2, <3>3, SoundWithEntry
  <2>3. CASE OpenPath
    <3>1. PICK place \in DOMAIN answer :
            \E out \in OpenPathOutcomes(answer[place]) :
              last' = [out EXCEPT !.entries = <<answer[place]>>]
      BY <2>3 DEF OpenPath
    <3>2. PICK out \in OpenPathOutcomes(answer[place]) :
            last' = [out EXCEPT !.entries = <<answer[place]>>]
      BY <3>1
    <3>3. Sound(out)
      BY <1>2, OpenPathCases
    <3> QED BY <3>2, <3>3, SoundWithEntry
  <2> QED BY <2>1, <2>2, <2>3
<1> QED BY <1>1, <1>3
        DEF ScanInv, ScanTypeOK, NothingKept, NoneTwice, AnswerShows, Shows, ShowsPlace, Sound,
            Entry

(* A device that is plugged in was not on the bus.                         *)
LEMMA BusKeeps ==
  ASSUME ScanInv, Plug \/ Unplug
  PROVE  ScanInv'
<1>1. changes' \in 0..MaxChanges /\ UNCHANGED <<winusb, answer, listed, last>>
  BY ScanAssumption DEF Plug, Unplug, ScanInv, ScanTypeOK
<1>2. bus \in Seq(Devices) /\ Len(bus) \in Nat /\ DOMAIN bus = 1..Len(bus)
  BY LenProperties DEF ScanInv, ScanTypeOK
<1>3. bus' \in Seq(Devices) /\ NoneTwice'
  <2>1. ASSUME NEW d \in Devices \ Range(bus), NEW k \in 1..(Len(bus) + 1),
               bus' = InsertAt(bus, k, d)
        PROVE  bus' \in Seq(Devices) /\ NoneTwice'
    <3>1. /\ bus' \in Seq(Devices) /\ Len(bus') = Len(bus) + 1
          /\ \A i \in 1..(Len(bus) + 1) :
               bus'[i] = IF i < k THEN bus[i] ELSE IF i = k THEN d ELSE bus[i - 1]
      <4>1. /\ InsertAt(bus, k, d) \in Seq(Devices) /\ Len(InsertAt(bus, k, d)) = Len(bus) + 1
            /\ \A i \in 1..(Len(bus) + 1) :
                 InsertAt(bus, k, d)[i] = IF i < k THEN bus[i] ELSE IF i = k THEN d ELSE bus[i - 1]
        BY <1>2, InsertFacts
      <4> QED BY <2>1, <4>1, Zenon
    <3>2. \A i \in 1..Len(bus) : bus[i] # d
      BY <1>2 DEF Range
    <3>3. \A i, j \in 1..(Len(bus) + 1) : bus'[i] = bus'[j] => i = j
      <4> SUFFICES ASSUME NEW i \in 1..(Len(bus) + 1), NEW j \in 1..(Len(bus) + 1),
                          bus'[i] = bus'[j]
                   PROVE  i = j
        OBVIOUS
      <4> DEFINE old(m) == IF m < k THEN m ELSE m - 1
      <4>1. \A m \in 1..(Len(bus) + 1) : m # k => old(m) \in 1..Len(bus) /\ bus'[m] = bus[old(m)]
        <5> SUFFICES ASSUME NEW m \in 1..(Len(bus) + 1), m # k
                     PROVE  old(m) \in 1..Len(bus) /\ bus'[m] = bus[old(m)]
          OBVIOUS
        <5>1. CASE m < k
          <6>1. m \in 1..Len(bus)
            BY <1>2, <5>1
          <6> QED BY <3>1, <5>1, <6>1
        <5>2. CASE ~(m < k)
          <6>1. m - 1 \in 1..Len(bus)
            BY <1>2, <5>2
          <6> QED BY <3>1, <5>2, <6>1
        <5> QED BY <5>1, <5>2
      <4>2. \A m \in 1..(Len(bus) + 1) : m = k => bus'[m] = d
        BY <1>2, <3>1
      <4>3. CASE i = k \/ j = k
        BY <3>2, <4>1, <4>2, <4>3
      <4>4. CASE i # k /\ j # k
        <5>1. old(i) = old(j)
          <6> HIDE DEF old
          <6> QED BY <4>1, <4>4 DEF ScanInv, NoneTwice
        <5> QED BY <1>2, <4>4, <5>1
      <4> QED BY <4>3, <4>4
    <3> QED BY <3>1, <3>3 DEF NoneTwice
  <2>2. ASSUME NEW k \in DOMAIN bus, bus' = RemoveAt(bus, k)
        PROVE  bus' \in Seq(Devices) /\ NoneTwice'
    <3>1. k \in 1..Len(bus)
      BY <1>2
    <3>2. /\ bus' \in Seq(Devices) /\ Len(bus') = Len(bus) - 1
          /\ \A i \in 1..Len(bus)-1 : bus'[i] = IF i < k THEN bus[i] ELSE bus[i + 1]
      BY <1>2, <2>2, <3>1, RemoveFacts
    <3>3. \A i, j \in 1..Len(bus)-1 : bus'[i] = bus'[j] => i = j
      <4> SUFFICES ASSUME NEW i \in 1..Len(bus)-1, NEW j \in 1..Len(bus)-1,
                          bus'[i] = bus'[j]
                   PROVE  i = j
        OBVIOUS
      <4> DEFINE old(m) == IF m < k THEN m ELSE m + 1
      <4>1. \A m \in 1..Len(bus)-1 : old(m) \in 1..Len(bus) /\ bus'[m] = bus[old(m)]
        BY <1>2, <3>2
      <4>2. old(i) = old(j)
        <5> HIDE DEF old
        <5> QED BY <4>1 DEF ScanInv, NoneTwice
      <4> QED BY <1>2, <3>1, <4>2
    <3> QED BY <3>2, <3>3 DEF NoneTwice
  <2> QED BY <1>2, <2>1, <2>2 DEF Plug, Unplug
<1> QED BY <1>1, <1>3
        DEF ScanInv, ScanTypeOK, NothingKept, AnswerShows, Shows, ShowsPlace, Entry

(* One case for each kind of action.                                       *)
LEMMA ScanStays == ScanInv /\ [ScanNext]_scan_vars => ScanInv'
<1> SUFFICES ASSUME ScanInv, [ScanNext]_scan_vars PROVE ScanInv'
  OBVIOUS
<1>1. CASE UNCHANGED scan_vars
  BY <1>1 DEF scan_vars, ScanInv, ScanTypeOK, NothingKept, NoneTwice, AnswerShows, Shows,
              ShowsPlace, Entry
<1> QED BY <1>1, EnumerateKeeps, OpenKeeps, BusKeeps DEF ScanNext

(* The invariant holds in every state.                                     *)
LEMMA ScanInvariance == ScanSpec => []ScanInv
  BY ScanStarts, ScanStays, PTL DEF ScanSpec

(* Whatever fails, and whatever is plugged in or out, the variables keep   *)
(* their types: every entry names a device and has a port that fits.       *)
THEOREM ScanTypeCorrect == ScanSpec => []ScanTypeOK
<1>1. ScanInv => ScanTypeOK
  BY DEF ScanInv
<1> QED BY <1>1, ScanInvariance, PTL

(* A call that succeeds has released what it allocated, and no enumeration *)
(* keeps its libusb context.                                               *)
THEOREM ScanKeepsNothing == ScanSpec => []NothingKept
<1>1. ScanInv => NothingKept
  BY DEF ScanInv
<1> QED BY <1>1, ScanInvariance, PTL

(* The second pass fills the places that the first counted, in list order, *)
(* if it sees the same devices.                                            *)
LEMMA FilledReports ==
  ASSUME bus \in Seq(Devices), NEW call, NEW b
  PROVE  LET f == Filled(call, Len(Seen(b)), Seen(b))
         IN /\ DOMAIN f = 1..Len(Seen(b))
            /\ \A k \in DOMAIN f : /\ f[k].dev = bus[Seen(b)[k]] /\ Seen(b)[k] \in 1..Len(bus)
                                   /\ f[k].dev.sunxi
            /\ \A j, k \in DOMAIN f : j < k => Seen(b)[j] < Seen(b)[k]
<1> DEFINE seen == Seen(b)
           n == Len(seen)
           f == Filled(call, n, seen)
<1>1. /\ n \in Nat
      /\ \A k \in 1..n : seen[k] \in Found(b) /\ seen[k] \in 1..Len(bus)
      /\ \A j, k \in 1..n : j < k => seen[j] < seen[k]
  BY SeenFacts, BusPositions DEF Seen
<1>2. \A k \in Found(b) : bus[k].sunxi
  BY SeenFacts
<1> HIDE DEF seen, n
<1>3. /\ DOMAIN f = 1..n
      /\ \A k \in 1..n : f[k] = IF k <= Len(seen) THEN EntryOf(call, seen[k], k) ELSE Unwritten
  BY FilledPlaces
<1> HIDE DEF f
<1>4. \A k \in 1..n : k <= Len(seen)
  BY <1>1 DEF n
<1>5. \A k \in 1..n : f[k].dev = bus[seen[k]]
  <2> TAKE k \in 1..n
  <2>1. f[k] = EntryOf(call, seen[k], k)
    BY <1>3, <1>4
  <2> QED BY <2>1 DEF EntryOf
<1>6. /\ DOMAIN f = 1..n
      /\ \A k \in DOMAIN f : f[k].dev = bus[seen[k]] /\ seen[k] \in 1..Len(bus) /\ f[k].dev.sunxi
      /\ \A j, k \in DOMAIN f : j < k => seen[j] < seen[k]
  BY <1>1, <1>2, <1>3, <1>5
<1> QED BY <1>6 DEF seen, n, f

(* If both passes see the same devices, a successful enumeration reports   *)
(* at every place a matching device that is present, none twice and in the *)
(* order of the list.                                                      *)
THEOREM ScanReportsPresent ==
  ASSUME "reread" \notin Faults
  PROVE  ScanSpec => ReportsPresent
<1>1. ASSUME ScanInv, [ScanNext]_scan_vars, last' # last, answer' # answer
      PROVE  LET devs == [k \in DOMAIN answer' |-> answer'[k].dev]
                 places == [k \in DOMAIN devs |-> {p \in DOMAIN bus : bus[p] = devs[k]}]
             IN /\ \A k \in DOMAIN devs : devs[k].sunxi /\ devs[k] \in Range(bus)
                /\ \A j, k \in DOMAIN devs : j < k =>
                     \A p \in places[j], q \in places[k] : p < q
  <2> DEFINE devs == [k \in DOMAIN answer' |-> answer'[k].dev]
             places == [k \in DOMAIN devs |-> {p \in DOMAIN bus : bus[p] = devs[k]}]
  <2>1. Enumerate
    BY <1>1 DEF ScanNext, scan_vars, OpenFirst, OpenAt, OpenPath, Plug, Unplug
  <2>2. bus \in Seq(Devices) /\ DOMAIN bus = 1..Len(bus) /\ \A p \in 1..Len(bus) : p \in Int
    <3>1. bus \in Seq(Devices)
      BY <1>1 DEF ScanInv, ScanTypeOK
    <3> QED BY <3>1, LenProperties
  <2>3. PICK call : \E out \in EnumerationOutcomes(call) :
          answer' = IF out.code = "SUCCESS" THEN out.entries ELSE <<>>
    BY <2>1 DEF Enumerate
  <2>4. PICK out \in EnumerationOutcomes(call) :
          answer' = IF out.code = "SUCCESS" THEN out.entries ELSE <<>>
    BY <2>3
  <2>5. CASE answer' = <<>>
    <3>1. DOMAIN answer' = {}
      BY <2>5
    <3> QED BY <3>1
  <2>6. CASE answer' # <<>>
    <3>1. out.code = "SUCCESS" /\ answer' = out.entries
      BY <2>4, <2>6
    <3>2. PICK b : answer' = Filled(call, Len(Seen(b)), Seen(b))
      BY <2>6, <3>1, EnumerationCases
    <3> DEFINE seen == Seen(b)
    <3>3. /\ \A k \in DOMAIN answer' : /\ answer'[k].dev = bus[seen[k]] /\ seen[k] \in 1..Len(bus)
                                       /\ answer'[k].dev.sunxi
          /\ \A j, k \in DOMAIN answer' : j < k => seen[j] < seen[k]
      BY <2>2, <3>2, FilledReports
    <3> HIDE DEF seen
    <3>4. DOMAIN devs = DOMAIN answer' /\ \A k \in DOMAIN devs : devs[k] = bus[seen[k]]
      BY <3>3
    <3>5. \A k \in DOMAIN devs : devs[k].sunxi /\ devs[k] \in Range(bus)
      BY <2>2, <3>3 DEF Range
    <3>6. \A k \in DOMAIN devs : \A p \in places[k] : p = seen[k]
      BY <1>1, <2>2, <3>3, <3>4 DEF ScanInv, NoneTwice
    <3>7. \A j, k \in DOMAIN devs : j < k => \A p \in places[j], q \in places[k] : p < q
      <4> SUFFICES ASSUME NEW j \in DOMAIN devs, NEW k \in DOMAIN devs, j < k,
                          NEW p \in places[j], NEW q \in places[k]
                   PROVE  p < q
        OBVIOUS
      <4>1. p = seen[j] /\ q = seen[k]
        BY <3>6
      <4>2. seen[j] < seen[k]
        BY <3>3, <3>4
      <4> QED BY <4>1, <4>2
    <3> QED BY <3>5, <3>7
  <2> QED BY <2>5, <2>6
<1>2. ScanInv /\ [ScanNext]_scan_vars =>
        [last' # last /\ answer' # answer =>
           LET devs == [k \in DOMAIN answer' |-> answer'[k].dev]
               places == [k \in DOMAIN devs |-> {p \in DOMAIN bus : bus[p] = devs[k]}]
           IN /\ \A k \in DOMAIN devs : devs[k].sunxi /\ devs[k] \in Range(bus)
              /\ \A j, k \in DOMAIN devs : j < k =>
                   \A p \in places[j], q \in places[k] : p < q]_scan_vars
  BY <1>1
<1> QED BY <1>2, ScanInvariance, PTL DEF ScanSpec, ReportsPresent

(* A device that is at the bus and port of an entry stands where it says.  *)
LEMMA OpenAtChosen ==
  ASSUME ScanInv, NEW e, Shows(e, listed), NEW k \in 1..Len(bus), IsAt(k, e)
  PROVE  StandsWhere(bus[k], e)
<1>1. Len(bus) \in Nat
  <2>1. bus \in Seq(Devices)
    BY DEF ScanInv, ScanTypeOK
  <2> QED BY <2>1, LenProperties
<1>2. CASE ~winusb
  <2>1. e.bus = e.dev.bus /\ e.port = e.dev.port
    BY <1>2 DEF Shows, ShowsPlace, Unwritten, None
  <2> QED BY <1>2, <2>1 DEF IsAt, StandsWhere
<1>3. CASE winusb
  <2>1. k = e.port
    BY <1>3 DEF IsAt
  <2>2. e # Unwritten
    <3>1. k # 0
      BY <1>1
    <3> QED BY <2>1, <3>1 DEF Unwritten
  <2>3. ASSUME e.path = <<>>, listed = bus, Len(bus) < PortValues PROVE bus[k] = e.dev
    <3>1. PICK i \in 1..Len(bus) : ShowsPlace(e, bus, i)
      BY <2>2, <2>3 DEF Shows
    <3>2. e.dev = bus[i] /\ e.port = i % PortValues
      BY <1>3, <2>3, <3>1 DEF ShowsPlace
    <3>3. i \in Nat /\ i < PortValues
      BY <1>1, <2>3, ScanAssumption
    <3>4. i % PortValues = i
      BY <3>3, PortFacts
    <3> QED BY <2>1, <3>2, <3>4
  <2> QED BY <1>3, <2>1, <2>3 DEF StandsWhere
<1> QED BY <1>2, <1>3

(* The path of a Windows snapshot opens the device it was read from.       *)
LEMMA OpenPathChosen ==
  ASSUME ScanInv, winusb, NEW e, Shows(e, listed), e.path # <<>>,
         NEW k \in 1..Len(bus), <<bus[k].id>> = e.path
  PROVE  bus[k] = e.dev /\ bus[k].sunxi
<1>1. bus[k] \in Devices /\ \A i \in 1..Len(listed) : listed[i] \in Devices
  <2>1. bus \in Seq(Devices) /\ listed \in Seq(Devices)
    BY DEF ScanInv, ScanTypeOK
  <2> QED BY <2>1, ElementOfSeq
<1>2. e # Unwritten
  BY DEF Unwritten
<1>3. PICK i \in 1..Len(listed) : ShowsPlace(e, listed, i)
  BY <1>2 DEF Shows
<1>4. e.dev = listed[i] /\ e.dev.sunxi /\ e.path = <<e.dev.id>>
  BY <1>3 DEF ShowsPlace
<1>5. bus[k].id = e.dev.id
  BY <1>4
<1> QED BY <1>1, <1>4, <1>5, DevicesAssumption

(* What is opened from an entry of a scan or a snapshot is a matching      *)
(* device that is present.  By bus and port it stands where the entry      *)
(* says, on Windows at the list position that the number is taken for; by  *)
(* the path of a snapshot it is the device of the entry.                   *)
THEOREM ScanOpensChosen == ScanSpec => OpenedIsChosen
<1>1. ASSUME ScanInv, [ScanNext]_scan_vars, last' # last, OpenedEntry'
      PROVE  LET e == last'.entries[1]
                 d == last'.dev
             IN /\ d.sunxi /\ d \in Range(bus)
                /\ OpenAt => StandsWhere(d, e)
                /\ OpenPath => d = e.dev
  <2> DEFINE e == last'.entries[1]
             d == last'.dev
  <2>1. bus \in Seq(Devices) /\ \A k \in 1..Len(bus) : bus[k] \in Range(bus)
    <3>1. bus \in Seq(Devices)
      BY <1>1 DEF ScanInv, ScanTypeOK
    <3> QED BY <3>1, LenProperties DEF Range
  <2>2. \A place \in DOMAIN answer : Shows(answer[place], listed)
    BY <1>1 DEF ScanInv, AnswerShows
  <2>3. ~Enumerate
    <3> SUFFICES ASSUME Enumerate PROVE last'.dev = None
      BY <1>1 DEF OpenedEntry
    <3> QED BY EnumerationCases DEF Enumerate
  <2>4. ~OpenFirst
    <3> SUFFICES ASSUME OpenFirst PROVE last'.entries = <<>>
      BY <1>1 DEF OpenedEntry
    <3> QED BY <2>1, OpenFirstCases DEF OpenFirst
  <2>5. ASSUME OpenAt
        PROVE  d.sunxi /\ d \in Range(bus) /\ StandsWhere(d, e)
    <3>1. PICK place \in DOMAIN answer, bad \in Unreadable :
            \E out \in OpenAtOutcomes(answer[place], bad) :
              last' = [out EXCEPT !.entries = <<answer[place]>>]
      BY <2>5 DEF OpenAt
    <3>2. PICK out \in OpenAtOutcomes(answer[place], bad) :
            last' = [out EXCEPT !.entries = <<answer[place]>>]
      BY <3>1
    <3>3. /\ last'.code = out.code /\ last'.dev = out.dev
          /\ last'.entries = <<answer[place]>>
      BY <2>1, <3>2, OpenAtCases, SoundWithEntry
    <3>4. PICK k \in 1..Len(bus) :
            IsAt(k, answer[place]) /\ out.dev = bus[k] /\ bus[k].sunxi
      BY <1>1, <2>1, <3>3, OpenAtCases DEF OpenedEntry
    <3>5. StandsWhere(bus[k], answer[place])
      BY <1>1, <2>2, <3>4, OpenAtChosen
    <3>6. d = bus[k] /\ e = answer[place]
      BY <3>3, <3>4
    <3> QED BY <2>1, <3>4, <3>5, <3>6
  <2>6. ASSUME OpenPath
        PROVE  d.sunxi /\ d \in Range(bus) /\ d = e.dev
    <3>1. PICK place \in DOMAIN answer :
            /\ answer[place].path # <<>>
            /\ \E out \in OpenPathOutcomes(answer[place]) :
                 last' = [out EXCEPT !.entries = <<answer[place]>>]
      BY <2>6 DEF OpenPath
    <3>2. PICK out \in OpenPathOutcomes(answer[place]) :
            last' = [out EXCEPT !.entries = <<answer[place]>>]
      BY <3>1
    <3>3. /\ last'.code = out.code /\ last'.dev = out.dev
          /\ last'.entries = <<answer[place]>>
      BY <2>1, <3>2, OpenPathCases, SoundWithEntry
    <3>4. PICK k \in 1..Len(bus) : <<bus[k].id>> = answer[place].path /\ out.dev = bus[k]
      BY <1>1, <2>1, <3>3, OpenPathCases DEF OpenedEntry
    <3>5. winusb
      BY <2>6 DEF OpenPath
    <3>6. bus[k] = answer[place].dev /\ bus[k].sunxi
      BY <1>1, <2>2, <3>1, <3>4, <3>5, OpenPathChosen
    <3> QED BY <2>1, <3>3, <3>4, <3>6
  <2>7. OpenAt \/ OpenPath
    BY <1>1, <2>3, <2>4 DEF ScanNext, scan_vars, Plug, Unplug
  <2> HIDE DEF d, e
  <2>8. d.sunxi /\ d \in Range(bus) /\ (OpenAt => StandsWhere(d, e)) /\ (OpenPath => d = e.dev)
    BY <2>5, <2>6, <2>7
  <2> QED BY <2>8 DEF d, e
<1>2. ScanInv /\ [ScanNext]_scan_vars =>
        [last' # last /\ OpenedEntry' =>
           LET e == last'.entries[1]
               d == last'.dev
           IN /\ d.sunxi /\ d \in Range(bus)
              /\ OpenAt => StandsWhere(d, e)
              /\ OpenPath => d = e.dev]_scan_vars
  BY <1>1
<1> QED BY <1>2, ScanInvariance, PTL DEF ScanSpec, OpenedIsChosen
=============================================================================
