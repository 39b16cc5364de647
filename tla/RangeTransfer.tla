--------------------------- MODULE RangeTransfer ---------------------------
(***************************************************************************)
(* What a ranged transfer promises its caller, whatever its chunk size:    *)
(* the buffer is moved in order and without gaps, the piece that starts at *)
(* buffer offset o is addressed to the place o bytes behind the base, and  *)
(* success means that everything was moved.  On an error a prefix was      *)
(* moved, and at most one further piece was tried at its proper place.     *)
(***************************************************************************)
EXTENDS Integers

CONSTANTS Word,  \* number of device addresses: they are Word-bit wide, 2^32
          Units  \* bytes per device address: 1, or the sector size

VARIABLES req,     \* the request: base address, bytes, bytes per address
          moved,   \* bytes moved so far
          pieces,  \* the pieces tried so far
          outcome  \* "running", "success" or "error"

vars == <<req, moved, pieces, outcome>>

Place(o) == (req.base + o \div req.unit) % Word
Piece(n) == [at |-> Place(moved), off |-> moved, len |-> n]

Init == /\ req \in [base : 0..Word-1, len : Int, unit : Units]
        /\ moved = 0 /\ pieces = {} /\ outcome = "running"

Move(n) == /\ outcome = "running" /\ n \in 1..(req.len - moved)
           /\ pieces' = pieces \cup {Piece(n)} /\ moved' = moved + n
           /\ UNCHANGED <<req, outcome>>

Fail(n) == /\ outcome = "running" /\ n \in 1..(req.len - moved)
           /\ pieces' = pieces \cup {Piece(n)} /\ outcome' = "error"
           /\ UNCHANGED <<req, moved>>

Reject == /\ outcome = "running" /\ moved = 0
          /\ outcome' = "error" /\ UNCHANGED <<req, moved, pieces>>

Succeed == /\ outcome = "running" /\ moved = req.len
           /\ outcome' = "success" /\ UNCHANGED <<req, moved, pieces>>

Next == Reject \/ Succeed \/ \E n \in 1..(req.len - moved) : Move(n) \/ Fail(n)

Spec == Init /\ [][Next]_vars
=============================================================================
