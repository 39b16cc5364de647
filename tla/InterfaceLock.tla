--------------------------- MODULE InterfaceLock ---------------------------
(***************************************************************************)
(* What opening a device promises to the contexts of a process: interface  *)
(* 0 of the device is held by at most one of them, and only the holder     *)
(* gives it back.  An application that opens a context over an open one    *)
(* may lose the interface for good.                                        *)
(***************************************************************************)
CONSTANTS Ctxs, NoCtx, Lost

VARIABLES holder, careless
vars == <<holder, careless>>

Init == holder = NoCtx /\ careless = FALSE

Acquire(c) ==
  /\ holder = NoCtx
  /\ holder' = c
  /\ careless' \in {careless, TRUE}

Release(c) ==
  /\ holder = c
  /\ holder' = NoCtx
  /\ UNCHANGED careless

Reopen ==
  /\ careless' = TRUE
  /\ holder' \in {holder, IF holder = NoCtx THEN NoCtx ELSE Lost}

Next == Reopen \/ \E c \in Ctxs : Acquire(c) \/ Release(c)

Spec == Init /\ [][Next]_vars
=============================================================================
