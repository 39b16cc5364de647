------------------------------ MODULE BytePipe ------------------------------
(***************************************************************************)
(* What moving a buffer through a bulk pipe promises: the bytes go over    *)
(* once each and in order, and success means all of them went, or at least *)
(* one where the pipe is not exact.                                        *)
(***************************************************************************)
EXTENDS Integers

CONSTANTS Lens,   \* lengths of the buffers
          Errors  \* what a transfer may fail with

VARIABLES
  want,    \* bytes the caller asked to move
  got,     \* bytes moved in order; -1 is a gap, a repetition or disorder
  exact,   \* whether success means all of them
  result
vars == <<want, got, exact, result>>

Init == want = 0 /\ got = 0 /\ exact \in BOOLEAN /\ result = "idle"

Begin ==
  /\ result # "busy"
  /\ want' \in Lens /\ got' = 0 /\ exact' \in BOOLEAN /\ result' = "busy"

Refuse ==
  /\ result # "busy"
  /\ want' = 0 /\ got' = 0 /\ exact' \in BOOLEAN /\ result' = "NULL_PTR"

Advance ==
  /\ result = "busy"
  /\ got' \in got..want
  /\ result' \in {"busy", "SUCCESS"} \cup Errors
  /\ result' = "SUCCESS" => IF exact THEN got' = want ELSE got' > 0
  /\ UNCHANGED <<want, exact>>

Next == Begin \/ Refuse \/ Advance

Spec == Init /\ [][Next]_vars
=============================================================================
